---- MODULE Spec2Model ----
(***************************************************************************)
(* A model of the categorization pipeline of bankzaken-analysis:           *)
(*   - the rule engine of pages/data_loader.py (condition evaluator, rule  *)
(*     tree evaluator, apply_rules_to_transactions),                       *)
(*   - the store of manual categorizations and the matcher's merge of      *)
(*     pages/transaction_matcher.py,                                       *)
(*   - the rule/ML composer of src/ml_categorizer.py,                      *)
(*   - the condition evaluator of the rule preview in                      *)
(*     pages/rule_management.py,                                           *)
(*   - the id generation and the load of transaction_loader.py,            *)
(*   - the amount cleaners, the column standardizers and the load of       *)
(*     src/data_loader.py and src/data_processor.py,                       *)
(*   - the Add Rule tab and the Delete buttons of pages/rule_management.py *)
(*     and pages/category_management.py, with several browser sessions,    *)
(*   - the restore of pages/backup_restore.py,                             *)
(*   - the labeling pages of src/manual_matcher.py,                        *)
(*   - the categorization interface of pages/transaction_matcher.py.       *)
(*                                                                         *)
(* Python str values are sequences of one-character strings; a DataFrame   *)
(* or JSON scalar is a tagged record (Str, Int, Float, NaN); a JSON object *)
(* is a record whose DOMAIN is its key set, so dict.get and `key in dict`  *)
(* are modelled on DOMAIN.                                                 *)
(***************************************************************************)
EXTENDS Integers, Sequences, FiniteSets, TLC

VARIABLES
    rules_file,         \* categories/categorization_rules.json: the list under categorization_rules.rules
    call,               \* the most recent call of apply_rules_to_transactions: its input, what it loaded, what it returned
    rule_performance,   \* st.session_state['rule_performance']: [present, value]
    session,            \* the cached frames of st.session_state, by key
    training_file,      \* data/categorized_transactions.csv: [exists, readable, rows]
    saved,              \* history: Transaction_ID -> the labels of its most recent successful save
    merge,              \* the matcher's last merge: what it loaded and the categorized_df it built
    pipeline,           \* MLCategorizer.pipeline
    model_file,         \* the joblib file load_model reads
    loaded,             \* the result of the most recent load_model call
    prediction,         \* the most recent predict_categories call: its inputs and the result frame
    evaluation,         \* a call of a condition evaluator: its arguments and, once it returned, its results
    directory,          \* the transaction files folder: the files in the order the search lists them
    loads,              \* the two most recent calls of transaction_loader.load_all_transactions
    cleaning,           \* a call of the amount cleaners: the cell and, once they returned, their results
    standardized,       \* the most recent call of TransactionDataLoader.load_all_transactions
    standardization,    \* a call of the column standardizers: the header and, once they returned, their results
    categories_document,    \* categories/categories.json: the object under "categories"
    rules_document,     \* categories/categorization_rules.json as the management pages read and write it
    sessions,           \* per browser session: st.session_state and what the running script has loaded
    labeling,           \* the manual labeling interface: its frame, training data and session state
    matcher,            \* the categorization interface of the matcher page
    store_call          \* a call of save_categorized_transaction: the store before and after

vars == <<rules_file, call, rule_performance, session, training_file, saved,
          merge, pipeline, model_file, loaded, prediction, evaluation, directory, loads,
          cleaning, standardized, standardization, categories_document, rules_document,
          sessions, labeling, matcher, store_call>>

\* the variables of the user interface flows and of the column standardizers
management == <<categories_document, rules_document, sessions>>
ManagementIdle == categories_document = <<>> /\ rules_document = <<>> /\ sessions = <<>>
interfaces == <<labeling, matcher, store_call>>
InterfacesIdle == labeling = <<>> /\ matcher = <<>> /\ store_call = <<>>
flows == <<standardization, management, interfaces>>
FlowsIdle == standardization = <<>> /\ ManagementIdle /\ InterfacesIdle

\* the calls of functions that the pages' specifications leave alone
function_calls == <<evaluation, directory, loads, cleaning, standardized, flows>>
NoFunctionCalls ==
    /\ evaluation = <<>> /\ directory = <<>> /\ loads = <<>>
    /\ cleaning = <<>> /\ standardized = <<>> /\ FlowsIdle

pages == <<rules_file, call, rule_performance, session, training_file, saved, merge,
           pipeline, model_file, loaded, prediction>>
PagesIdle ==
    /\ rules_file = <<>> /\ call = <<>> /\ rule_performance = <<>> /\ session = <<>>
    /\ training_file = <<>> /\ saved = <<>> /\ merge = <<>>
    /\ pipeline = <<>> /\ model_file = <<>> /\ loaded = <<>> /\ prediction = <<>>

----------------------------------------------------------------------------
(* Python and pandas values *)

Str(s) == [t |-> "str", v |-> s]
Int_(n) == [t |-> "int", v |-> n]
Float_(n) == [t |-> "float", v |-> n]      \* an integer-valued float64
NaN == [t |-> "nan"]
NaT == [t |-> "nat"]
Timestamp(d) == [t |-> "timestamp", v |-> d]     \* a date at midnight

\* pd.isna / pd.notna on a scalar
isna(x) == x.t \in {"nan", "nat"}

\* dict.get(key, default)
get(d, k, default) == IF k \in DOMAIN d THEN d[k] ELSE default

\* str.lower on one character of the model's alphabet
lower_char(c) ==
    CASE c = "A" -> "a"
      [] c = "B" -> "b"
      [] c = "C" -> "c"
      [] c = "D" -> "d"
      [] c = "H" -> "h"
      [] c = "N" -> "n"
      [] OTHER -> c

\* str.lower
lower(s) == [i \in DOMAIN s |-> lower_char(s[i])]

Whitespace == {" "}

\* str.strip
RECURSIVE lstrip(_)
lstrip(s) == IF s # <<>> /\ Head(s) \in Whitespace THEN lstrip(Tail(s)) ELSE s

RECURSIVE rstrip(_)
rstrip(s) ==
    IF s # <<>> /\ s[Len(s)] \in Whitespace THEN rstrip(SubSeq(s, 1, Len(s) - 1)) ELSE s

strip(s) == rstrip(lstrip(s))

\* the decimal digits of a natural number, as str() writes them
Digit(d) == CASE d = 0 -> "0" [] d = 1 -> "1" [] d = 2 -> "2" [] d = 3 -> "3" [] d = 4 -> "4"
              [] d = 5 -> "5" [] d = 6 -> "6" [] d = 7 -> "7" [] d = 8 -> "8" [] d = 9 -> "9"

RECURSIVE digits(_)
digits(n) == IF n < 10 THEN <<Digit(n)>> ELSE digits(n \div 10) \o <<Digit(n % 10)>>

List(v) == [t |-> "list", v |-> v]

\* repr(x) of a str without quotes in it, or of an int
repr(x) ==
    CASE x.t = "str" -> <<"'">> \o x.v \o <<"'">>
      [] x.t = "int" -> (IF x.v < 0 THEN <<"-">> ELSE <<>>) \o digits(IF x.v < 0 THEN -x.v ELSE x.v)

\* ', '.join of the reprs of a list's entries
RECURSIVE join_repr(_)
join_repr(v) ==
    IF v = <<>> THEN <<>>
    ELSE IF Len(v) = 1 THEN repr(v[1])
    ELSE repr(v[1]) \o <<",", " ">> \o join_repr(Tail(v))

\* str(x) of a scalar: an int prints its digits, a float64 prints them with ".0";
\* str(x) of a list prints the reprs of its entries between brackets
str(x) ==
    CASE x.t = "str" -> x.v
      [] x.t = "int" -> (IF x.v < 0 THEN <<"-">> ELSE <<>>) \o digits(IF x.v < 0 THEN -x.v ELSE x.v)
      [] x.t = "float" -> (IF x.v < 0 THEN <<"-">> ELSE <<>>)
                            \o digits(IF x.v < 0 THEN -x.v ELSE x.v) \o <<".", "0">>
      [] x.t = "nan" -> <<"n", "a", "n">>
      [] x.t = "list" -> <<"[">> \o join_repr(x.v) \o <<"]">>
      [] x.t = "nat" -> <<"N", "a", "T">>
      [] x.t = "timestamp" -> x.v \o <<" ", "0", "0", ":", "0", "0", ":", "0", "0">>

DigitChars == {"0", "1", "2", "3", "4", "5", "6", "7", "8", "9"}

DigitValue(c) == CHOOSE d \in 0..9 : Digit(d) = c

RECURSIVE digits_value(_)
digits_value(s) ==
    IF s = <<>> THEN 0 ELSE 10 * digits_value(SubSeq(s, 1, Len(s) - 1)) + DigitValue(s[Len(s)])

\* float(x): [ok, v]; a str converts when it is an optionally signed run of digits,
\* optionally followed by ".0", and raises ValueError otherwise
float_of_str(s) ==
    LET neg == s # <<>> /\ Head(s) = "-"
        body == IF neg THEN Tail(s) ELSE s
        n == Len(body)
        whole == IF n >= 2 /\ body[n - 1] = "." /\ body[n] = "0" THEN SubSeq(body, 1, n - 2) ELSE body
    IN  IF whole # <<>> /\ \A i \in DOMAIN whole : whole[i] \in DigitChars
        THEN [ok |-> TRUE, v |-> IF neg THEN -digits_value(whole) ELSE digits_value(whole)]
        ELSE [ok |-> FALSE, v |-> 0]

float(x) ==
    CASE x.t = "str" -> float_of_str(strip(x.v))
      [] x.t \in {"int", "float"} -> [ok |-> TRUE, v |-> x.v]
      [] OTHER -> [ok |-> FALSE, v |-> 0]

\* float(a) > float(b), False when either conversion raises
float_gt(a, b) == a.ok /\ b.ok /\ a.v > b.v

\* `value_str in field_str`
contains(field_str, value_str) ==
    \E i \in 0..(Len(field_str) - Len(value_str)) :
        SubSeq(field_str, i + 1, i + Len(value_str)) = value_str

\* str.startswith, str.endswith
startswith(field_str, value_str) ==
    Len(value_str) <= Len(field_str) /\ SubSeq(field_str, 1, Len(value_str)) = value_str

endswith(field_str, value_str) ==
    Len(value_str) <= Len(field_str)
    /\ SubSeq(field_str, Len(field_str) - Len(value_str) + 1, Len(field_str)) = value_str

\* re.compile(pattern) for patterns made of literal characters, ".", "(" and
\* escapes: an unescaped "(" stays unbalanced and a backslash that ends the
\* pattern escapes nothing, both are re.error
RECURSIVE regex_compiles(_)
regex_compiles(pattern) ==
    IF pattern = <<>> THEN TRUE
    ELSE IF Head(pattern) = "\\"
    THEN Len(pattern) >= 2 /\ regex_compiles(SubSeq(pattern, 3, Len(pattern)))
    ELSE Head(pattern) # "(" /\ regex_compiles(Tail(pattern))

\* an escape on one character: \d a digit, \D anything else, an escaped
\* punctuation character itself
escape_matches(c, ch) ==
    CASE c = "d" -> ch \in DigitChars
      [] c = "D" -> ch \notin DigitChars
      [] OTHER -> c = ch

\* the pattern matches a prefix of text[i..]
RECURSIVE regex_match(_, _, _, _)
regex_match(pattern, text, i, ignorecase) ==
    IF pattern = <<>> THEN TRUE
    ELSE IF Head(pattern) = "\\"
    THEN /\ i <= Len(text)
         /\ escape_matches(pattern[2], text[i])
         /\ regex_match(SubSeq(pattern, 3, Len(pattern)), text, i + 1, ignorecase)
    ELSE /\ i <= Len(text)
         /\ \/ Head(pattern) = "."
            \/ Head(pattern) = text[i]
            \/ ignorecase /\ lower_char(Head(pattern)) = lower_char(text[i])
         /\ regex_match(Tail(pattern), text, i + 1, ignorecase)

\* re.search(pattern, text, flags) of a pattern that compiles
regex_search(pattern, text, ignorecase) ==
    \E i \in 1..(Len(text) + 1) : regex_match(pattern, text, i, ignorecase)

----------------------------------------------------------------------------
(* pages/data_loader.py: the condition evaluator and the rule tree evaluator *)

\* A JSON value that is no object (null, a number, a string) where a condition node is expected
NotADict == [json |-> "scalar"]
\* The empty JSON object {}
EmptyDict == [json |-> "{}"]

is_dict(node) == "json" \notin DOMAIN node \/ node = EmptyDict
keys(node) == IF "json" \in DOMAIN node THEN {} ELSE DOMAIN node
\* Python truthiness of a JSON value used as `conditions`
truthy(node) == node # EmptyDict

\* lines 53-80: the operator applied to the field and the value, given also as
\* the strings of lines 45-51
compare(operator, field_value, value, field_str, value_str, case_sensitive) ==
    CASE operator = "contains" -> contains(field_str, value_str)
      [] operator = "equals" -> field_str = value_str
      [] operator = "starts_with" -> startswith(field_str, value_str)
      [] operator = "ends_with" -> endswith(field_str, value_str)
      [] operator = "greater_than" -> float_gt(float(field_value), float(value))
      [] operator = "less_than" -> float_gt(float(value), float(field_value))
      [] operator = "regex" ->
            regex_compiles(value_str) /\ regex_search(value_str, field_str, ~case_sensitive)
      [] OTHER -> FALSE

as_text_written(x, case_sensitive) == str(x)

\* lines 44-51: str() of a scalar, lower-cased unless case_sensitive
as_text(x, case_sensitive) == IF case_sensitive THEN str(x) ELSE lower(str(x))

\* lines 38-80, the field being present
evaluate_field(field_value, operator, value, case_sensitive) ==
    IF isna(field_value) THEN FALSE
    ELSE compare(operator, field_value, value, as_text(field_value, case_sensitive),
                 as_text(value, case_sensitive), case_sensitive)

evaluate_condition(transaction, condition) ==
    IF get(condition, "field", "") \notin DOMAIN transaction THEN FALSE
    ELSE evaluate_field(transaction[get(condition, "field", "")],
                        get(condition, "operator", ""),
                        get(condition, "value", Str(<<>>)),
                        get(condition, "case_sensitive", FALSE))

\* pages/rule_management.py lines 80-125: the operators of the rule preview's
\* evaluate_condition, given the strings of lines 72-79
preview_compare(operator, field_value, value, field_str, value_str, case_sensitive) ==
    CASE operator = "contains" -> contains(field_str, value_str)
      [] operator = "equals" -> field_str = value_str
      [] operator = "starts_with" -> startswith(field_str, value_str)
      [] operator = "ends_with" -> endswith(field_str, value_str)
      [] operator = "regex" ->
            regex_compiles(value_str) /\ regex_search(value_str, field_str, ~case_sensitive)
      [] operator = "greater_than" -> float_gt(float(field_value), float(value))
      [] operator = "less_than" -> float_gt(float(value), float(field_value))
      [] operator = "between" ->
            /\ value.t = "list" /\ Len(value.v) = 2
            /\ float(field_value).ok /\ float(value.v[1]).ok /\ float(value.v[2]).ok
            /\ float(value.v[1]).v <= float(field_value).v
            /\ float(field_value).v <= float(value.v[2]).v
      [] operator = "in" ->
            IF value.t = "list"
            THEN IF ~case_sensitive
                 THEN \E i \in DOMAIN value.v : lower(field_str) = lower(str(value.v[i]))
                 ELSE \E i \in DOMAIN value.v : field_str = str(value.v[i])
            ELSE field_str = value_str
      [] OTHER -> FALSE

\* pages/rule_management.py lines 54-125, the field being present
preview_evaluate_field(field_value, operator, value, case_sensitive) ==
    IF isna(field_value) THEN FALSE
    ELSE preview_compare(operator, field_value, value, as_text(field_value, case_sensitive),
                         as_text(value, case_sensitive), case_sensitive)

\* pages/rule_management.py: evaluate_condition of the rule preview
preview_evaluate_condition(transaction, condition) ==
    IF get(condition, "field", "") \notin DOMAIN transaction THEN FALSE
    ELSE preview_evaluate_field(transaction[get(condition, "field", "")],
                                get(condition, "operator", ""),
                                get(condition, "value", Str(<<>>)),
                                get(condition, "case_sensitive", FALSE))

\* The outcome of evaluate_rule_conditions: "true", "false", or "raise" when the
\* evaluation raises (a node that is no JSON object has no .get / no `in`).
\* The list comprehension evaluates every child before all()/any() runs, so a
\* raising child makes the node raise whatever the other children return.
\* lines 97-102: all() / any() over the children's results
combine(operator, results) ==
    IF \E i \in DOMAIN results : results[i] = "raise" THEN "raise"
    ELSE IF operator = "AND"
         THEN (IF \A i \in DOMAIN results : results[i] = "true" THEN "true" ELSE "false")
    ELSE IF operator = "OR"
         THEN (IF \E i \in DOMAIN results : results[i] = "true" THEN "true" ELSE "false")
    ELSE "false"

RECURSIVE evaluate_rule_conditions(_, _)

evaluate_rules_unguarded(transaction, operator, rules) ==
    combine(operator, [i \in DOMAIN rules |-> evaluate_rule_conditions(transaction, rules[i])])

\* lines 88-102: a composite node with the list under its 'rules' key
evaluate_rules(transaction, operator, rules) ==
    IF rules = <<>> THEN "false"
    ELSE combine(operator, [i \in DOMAIN rules |-> evaluate_rule_conditions(transaction, rules[i])])

evaluate_rule_conditions(transaction, conditions) ==
    IF ~is_dict(conditions) THEN "raise"
    ELSE IF "field" \in keys(conditions)
    THEN (IF evaluate_condition(transaction, conditions) THEN "true" ELSE "false")
    ELSE evaluate_rules(transaction, get(conditions, "operator", "AND"),
                        IF "rules" \in keys(conditions) THEN conditions.rules ELSE <<>>)


----------------------------------------------------------------------------
(* pages/data_loader.py: apply_rules_to_transactions *)

\* rule.get('priority', 50)
DefaultPriority == 50

priority_key(rule) == get(rule, "priority", DefaultPriority)

\* [rule for rule in rules if rule.get('active', True)]
filter_active_all(rules) == rules

filter_active(rules) == SelectSeq(rules, LAMBDA rule : get(rule, "active", TRUE))

\* One step of the stable descending sort: `rule` goes behind every element
\* whose key is greater than or equal to its own.
insert_before_equal(sorted, rule) ==
    LET n == Cardinality({i \in DOMAIN sorted : priority_key(sorted[i]) > priority_key(rule)})
    IN  SubSeq(sorted, 1, n) \o <<rule>> \o SubSeq(sorted, n + 1, Len(sorted))

insert_ascending(sorted, rule) ==
    LET n == Cardinality({i \in DOMAIN sorted : priority_key(sorted[i]) <= priority_key(rule)})
    IN  SubSeq(sorted, 1, n) \o <<rule>> \o SubSeq(sorted, n + 1, Len(sorted))

insert_by_priority(sorted, rule) ==
    LET n == Cardinality({i \in DOMAIN sorted : priority_key(sorted[i]) >= priority_key(rule)})
    IN  SubSeq(sorted, 1, n) \o <<rule>> \o SubSeq(sorted, n + 1, Len(sorted))

\* active_rules.sort(key=lambda x: x.get('priority', 50), reverse=True)
RECURSIVE sort_by_priority(_)
sort_by_priority(rules) ==
    IF rules = <<>> THEN <<>>
    ELSE insert_by_priority(sort_by_priority(SubSeq(rules, 1, Len(rules) - 1)), rules[Len(rules)])

\* df[column] = value on one row: the column is added when the frame lacks it
set_col(row, column, value) ==
    [f \in DOMAIN row \cup {column} |-> IF f = column THEN value ELSE row[f]]

\* lines 118-121: the three columns are (re)created empty on every row
reset_columns(row) ==
    set_col(set_col(set_col(row, "Category", Str(<<>>)), "Subcategory", Str(<<>>)),
            "Categorization_Source", Str(<<>>))

\* f"Rule: {rule_name}"
RulePrefix == <<"R", "u", "l", "e", ":", " ">>
UnknownRule == <<"U", "n", "k", "n", "o", "w", "n", " ", "R", "u", "l", "e">>
rule_source(rule) == Str(RulePrefix \o get(rule, "name", UnknownRule))

\* lines 134-162 for one transaction: the positions in active_rules of the rules
\* applied to it, in the order they are applied.
RECURSIVE test_rules(_, _, _)

\* line 157: break after the first matching rule
on_match_continue(transaction, active_rules, k) == test_rules(transaction, active_rules, k + 1)

on_match(transaction, active_rules, k) == <<>>

\* lines 159-162: the error is printed and the loop continues with the next rule
on_raise_break(transaction, active_rules, k) == <<>>

on_raise(transaction, active_rules, k) == test_rules(transaction, active_rules, k + 1)

\* lines 144-162: what follows the evaluation of rule k on the transaction
on_outcome(outcome, transaction, active_rules, k) ==
    CASE outcome = "true" -> <<k>> \o on_match(transaction, active_rules, k)
      [] outcome = "raise" -> on_raise(transaction, active_rules, k)
      [] OTHER -> test_rules(transaction, active_rules, k + 1)

\* lines 135-162: rule k, its `conditions` read
test_rule(transaction, active_rules, k, conditions) ==
    IF ~truthy(conditions) THEN test_rules(transaction, active_rules, k + 1)
    ELSE on_outcome(evaluate_rule_conditions(transaction, conditions), transaction, active_rules, k)

test_rules(transaction, active_rules, k) ==
    IF k > Len(active_rules) THEN <<>>
    ELSE test_rule(transaction, active_rules, k, get(active_rules[k], "conditions", EmptyDict))

\* lines 147-149, for each applied rule in turn: later applications overwrite
RECURSIVE assign_rules(_, _, _)
assign_rules(row, active_rules, hits) ==
    IF hits = <<>> THEN row
    ELSE LET rule == active_rules[Head(hits)]
         IN  assign_rules(
                 set_col(set_col(set_col(row, "Category", Str(get(rule, "category", <<>>))),
                                 "Subcategory", Str(get(rule, "subcategory", <<>>))),
                         "Categorization_Source", rule_source(rule)),
                 active_rules, Tail(hits))

\* the row after lines 134-162, and the ids of the rules applied to it (each one
\* a run of lines 147-154)
row_result(row, active_rules, hits) ==
    [row |-> assign_rules(row, active_rules, hits),
     applied |-> [i \in DOMAIN hits |-> get(active_rules[hits[i]], "id", "")]]

\* lines 127-162 for the row at idx
categorize_row(row, active_rules) ==
    IF ~isna(row.Category) /\ strip(str(row.Category)) # <<>>
    THEN [row |-> row, applied |-> <<>>]
    ELSE row_result(row, active_rules, test_rules(row, active_rules, 1))

\* The rule ids of the model's rules documents, and '' for a rule without an id
RuleIds == {"r1", "r2", "r3", "r4", ""}

NoMatches == [id \in RuleIds |-> 0]

\* lines 151-154 over the whole pass: rule_matches, an absent key read as 0
count_matches(applied) ==
    LET runs == UNION {{<<i, j>> : j \in DOMAIN applied[i]} : i \in DOMAIN applied}
    IN  [id \in RuleIds |-> Cardinality({p \in runs : applied[p[1]][p[2]] = id})]

\* lines 164-166: a non-empty rule_matches replaces the session's mapping
publish(rule_matches, performance) ==
    IF rule_matches # NoMatches THEN [present |-> TRUE, value |-> rule_matches] ELSE performance

\* lines 123-166, the rows done: what the call returns and leaves in the session
pass_result(transactions_df, rules, performance, done, rule_matches) ==
    [kind |-> "pass", input |-> transactions_df, rules |-> rules,
     df |-> [i \in DOMAIN done |-> done[i].row],
     applied |-> [i \in DOMAIN done |-> done[i].applied],
     rule_matches |-> rule_matches,
     rule_performance |-> publish(rule_matches, performance)]

\* lines 127-162 over the frame
categorize_rows(transactions_df, active_rules) ==
    [i \in DOMAIN transactions_df |-> categorize_row(reset_columns(transactions_df[i]), active_rules)]

count_rows(done) == count_matches([i \in DOMAIN done |-> done[i].applied])

tally(transactions_df, rules, performance, done) ==
    pass_result(transactions_df, rules, performance, done, count_rows(done))

\* apply_rules_to_transactions(transactions_df), reading the rules document and
\* the session's rule_performance: the returned frame (df), the pass's
\* rule_matches, the rules applied to each row, and the session's mapping afterwards
apply_rules_to_transactions(transactions_df, rules, performance) ==
    IF transactions_df = <<>>
    THEN [kind |-> "pass", input |-> transactions_df, rules |-> <<>>, df |-> transactions_df,
          applied |-> <<>>, rule_matches |-> NoMatches, rule_performance |-> performance]
    ELSE tally(transactions_df, rules, performance,
               categorize_rows(transactions_df, sort_by_priority(filter_active(rules))))

----------------------------------------------------------------------------
(* The rules documents and transaction tables the rule engine is run on *)

MaxRules == 2       \* rules in a rules document
MaxTx == 2          \* rows in a transaction table

Food == <<"F", "o", "o", "d">>
Groceries == <<"G", "r", "o", "c">>
Manual == <<"M", "a", "n", "u", "a", "l">>

RuleIdAt(k) == CASE k = 1 -> "r1" [] k = 2 -> "r2" [] k = 3 -> "r3" [] OTHER -> "r4"
NameAt(k) == <<"R", Digit(k)>>
CategoryAt(k) == <<"C", Digit(k)>>
SubcategoryAt(k) == <<"S", Digit(k)>>

\* Description contains "A", letter case ignored
CondA == [field |-> "Description", operator |-> "contains", value |-> Str(<<"A">>),
          case_sensitive |-> FALSE]
\* Description starts with "n" (case_sensitive left out: False)
CondN == [field |-> "Description", operator |-> "starts_with", value |-> Str(<<"n">>)]
\* an OR tree: Description contains "A" or starts with "n"
CondAny == [operator |-> "OR", rules |-> <<CondA, CondN>>]
\* a tree with a child that is no JSON object
CondBad == [operator |-> "OR", rules |-> <<CondA, NotADict>>]

\* a key of the rule that the document may leave out
NoPriority == [has |-> FALSE, v |-> 0]
NoActive == [has |-> FALSE, v |-> TRUE]
Key(v) == [has |-> TRUE, v |-> v]

Option(conditions, priority, active) ==
    [conditions |-> conditions, priority |-> priority, active |-> active]

\* the rules a document is made of: priority and active left out or written,
\* active and inactive, matching, raising, and without conditions
RuleOptions ==
    {Option(CondA, NoPriority, NoActive),
     Option(CondAny, NoPriority, NoActive),
     Option(CondA, Key(90), Key(TRUE)),
     Option(CondA, Key(90), Key(FALSE)),
     Option(CondAny, Key(90), Key(TRUE)),
     Option(CondBad, Key(90), NoActive),
     Option(EmptyDict, Key(90), Key(TRUE))}

Rule(k, o) ==
    LET base == [id |-> RuleIdAt(k), name |-> NameAt(k), category |-> CategoryAt(k),
                 subcategory |-> SubcategoryAt(k), conditions |-> o.conditions]
        with_priority == IF o.priority.has THEN set_col(base, "priority", o.priority.v) ELSE base
    IN  IF o.active.has THEN set_col(with_priority, "active", o.active.v) ELSE with_priority

RuleDocs ==
    UNION {{[k \in 1..n |-> Rule(k, choice[k])] : choice \in [1..n -> RuleOptions]} : n \in 0..MaxRules}

\* the transactions of the loaded files, in load order; the ids are unique
Tx1 == [Transaction_ID |-> Str(<<"T", "1">>), Description |-> Str(<<"A", "H">>), Amount |-> Float_(-12)]
Tx2 == [Transaction_ID |-> Str(<<"T", "2">>), Description |-> Str(<<"N", "F">>), Amount |-> Float_(-45)]
Tx3 == [Transaction_ID |-> Str(<<"T", "3">>), Description |-> Str(<<"H", "F">>), Amount |-> Float_(30)]
Tx4 == [Transaction_ID |-> Str(<<"T", "4">>), Description |-> Str(<<"N", "A">>), Amount |-> Float_(7)]
Statement == <<Tx1, Tx2, Tx3, Tx4>>

\* the same rows in a frame that already has the three category columns
Labelled(tx, category, subcategory, source) ==
    set_col(set_col(set_col(tx, "Category", Str(category)), "Subcategory", Str(subcategory)),
            "Categorization_Source", Str(source))

\* a frame whose first transaction was categorized by hand and the others not
LabelledStatement ==
    [i \in DOMAIN Statement |->
        IF i = 1 THEN Labelled(Statement[i], Food, Groceries, Manual)
        ELSE Labelled(Statement[i], <<>>, <<>>, <<>>)]

\* the rows of `statement` at the positions S, in order
RECURSIVE rows_of(_, _)
rows_of(statement, S) ==
    IF S = {} THEN <<>>
    ELSE LET last == CHOOSE i \in S : \A j \in S : j <= i
         IN  Append(rows_of(statement, S \ {last}), statement[last])

\* frames as load_all_transactions returns them, and frames carrying category columns
LoadedTables == {rows_of(Statement, S) : S \in SUBSET (1..MaxTx)}
Tables == LoadedTables \cup {rows_of(LabelledStatement, S) : S \in SUBSET (1..MaxTx)}

NoCall == [kind |-> "none"]
NoPerformance == [present |-> FALSE, value |-> NoMatches]

----------------------------------------------------------------------------
(* SpecEngine: apply_rules_to_transactions on any rules document and any table *)

EngineIdle ==
    /\ session = <<>> /\ training_file = <<>> /\ saved = <<>> /\ merge = <<>>
    /\ pipeline = <<>> /\ model_file = <<>> /\ loaded = <<>> /\ prediction = <<>>
    /\ NoFunctionCalls

EngineInit ==
    /\ rules_file \in RuleDocs
    /\ call = NoCall
    /\ rule_performance = NoPerformance
    /\ EngineIdle

Categorize ==
    \E transactions_df \in Tables :
        /\ call' = apply_rules_to_transactions(transactions_df, rules_file, rule_performance)
        /\ rule_performance' = call'.rule_performance
        /\ UNCHANGED <<function_calls, rules_file, session, training_file, saved, merge, pipeline, model_file,
                       loaded, prediction>>

EngineNext == Categorize

SpecEngine == EngineInit /\ [][EngineNext]_vars

----------------------------------------------------------------------------
(* Claims about the rule engine, stated on the most recent call *)

\* the transaction of row i as the rules see it: the input row, category columns empty
Evaluated(i) ==
    [call.df[i] EXCEPT !.Category = Str(<<>>), !.Subcategory = Str(<<>>),
                       !.Categorization_Source = Str(<<>>)]

IsActive(k) == IF "active" \in DOMAIN call.rules[k] THEN call.rules[k].active ELSE TRUE
PriorityOf(k) == IF "priority" \in DOMAIN call.rules[k] THEN call.rules[k].priority ELSE DefaultPriority
Outcome(i, k) == evaluate_rule_conditions(Evaluated(i), call.rules[k].conditions)

\* the active rules of the loaded document whose condition tree is true of row i
Matching(i) == {k \in DOMAIN call.rules : IsActive(k) /\ Outcome(i, k) = "true"}

\* row i came out with the category and subcategory of rule k, applied once
CategorizedBy(i, k) ==
    /\ call.applied[i] = <<call.rules[k].id>>
    /\ call.df[i].Category = Str(call.rules[k].category)
    /\ call.df[i].Subcategory = Str(call.rules[k].subcategory)

\* C1 (first-match-wins): every row gets the category and subcategory of an
\* active matching rule of the highest priority among the active matching
\* rules; at most one rule is applied to a row; a row no active rule matches
\* keeps an empty category.
C1_FirstMatchWins ==
    call.kind = "pass" =>
        /\ Len(call.df) = Len(call.input)
        /\ \A i \in DOMAIN call.df :
            /\ Len(call.applied[i]) <= 1
            /\ Matching(i) = {} =>
                  call.applied[i] = <<>> /\ call.df[i].Category = Str(<<>>)
            /\ Matching(i) # {} =>
                  \E w \in Matching(i) :
                      /\ \A m \in Matching(i) : PriorityOf(m) <= PriorityOf(w)
                      /\ CategorizedBy(i, w)

\* C1 witness: a row matched by two active rules, the later one in the
\* document having the higher priority, categorized by the later one.
C1_Witness ==
    /\ call.kind = "pass"
    /\ \E i \in DOMAIN call.df : \E a, b \in Matching(i) :
          a < b /\ PriorityOf(a) < PriorityOf(b) /\ CategorizedBy(i, b)

\* C2 (priority tie-break): of two active rules of equal priority that both
\* match a row, the one later in the rules document is not the one applied.
C2_TieBreak ==
    call.kind = "pass" =>
        \A i \in DOMAIN call.df : \A a, b \in Matching(i) :
            (a < b /\ PriorityOf(a) = PriorityOf(b)) =>
                \A j \in DOMAIN call.applied[i] : call.applied[i][j] # call.rules[b].id

\* C2 witness: two active rules of equal priority match a row and the earlier
\* one categorized it.
C2_Witness ==
    /\ call.kind = "pass"
    /\ \E i \in DOMAIN call.df : \E a, b \in Matching(i) :
          a < b /\ PriorityOf(a) = PriorityOf(b) /\ CategorizedBy(i, a)

\* row i of the input carried a non-empty category
HadCategory(i) ==
    /\ "Category" \in DOMAIN call.input[i]
    /\ ~isna(call.input[i].Category)
    /\ strip(str(call.input[i].Category)) # <<>>

\* C3 (prior categorization is preserved): a row passed in with a non-empty
\* category comes out with the same category, subcategory and source, and no
\* rule is counted for it.
C3_PriorPreserved ==
    call.kind = "pass" =>
        \A i \in DOMAIN call.input :
            HadCategory(i) =>
                /\ call.df[i].Category = call.input[i].Category
                /\ call.df[i].Subcategory = call.input[i].Subcategory
                /\ call.df[i].Categorization_Source = call.input[i].Categorization_Source
                /\ call.applied[i] = <<>>

\* C6 (inactive rules are skipped): an inactive rule is applied to no row and
\* has a zero match count, and a row that an active rule matches is
\* categorized whatever inactive rules match it too.
C6_InactiveSkipped ==
    call.kind = "pass" =>
        \A k \in DOMAIN call.rules :
            ~IsActive(k) =>
                /\ call.rule_matches[call.rules[k].id] = 0
                /\ \A i \in DOMAIN call.df :
                      /\ \A j \in DOMAIN call.applied[i] : call.applied[i][j] # call.rules[k].id
                      /\ call.df[i].Category # Str(call.rules[k].category)
                      /\ Matching(i) # {} => \E m \in Matching(i) : CategorizedBy(i, m)

\* C6 witness: an inactive rule of higher priority is true of a row that a
\* lower-priority active rule categorized.
C6_Witness ==
    /\ call.kind = "pass"
    /\ \E i \in DOMAIN call.df : \E k, m \in DOMAIN call.rules :
          /\ ~IsActive(k) /\ Outcome(i, k) = "true"
          /\ PriorityOf(k) > PriorityOf(m)
          /\ m \in Matching(i) /\ CategorizedBy(i, m)

\* C7 (error isolation): a rule whose evaluation raises on a row is not applied
\* to it; the rules after it are still evaluated, so a row that an active rule
\* matches is categorized; and every row of the input is processed.
C7_ErrorIsolation ==
    call.kind = "pass" =>
        /\ Len(call.df) = Len(call.input)
        /\ \A i \in DOMAIN call.df : \A k \in DOMAIN call.rules :
              (IsActive(k) /\ Outcome(i, k) = "raise") =>
                  /\ \A j \in DOMAIN call.applied[i] : call.applied[i][j] # call.rules[k].id
                  /\ Matching(i) # {} => \E m \in Matching(i) : CategorizedBy(i, m)

\* C7 witness: on the first row a raising rule precedes, by priority, the rule
\* that categorized the row, and the second row was categorized as well.
C7_Witness ==
    /\ call.kind = "pass"
    /\ Len(call.df) >= 2
    /\ \E k, m \in DOMAIN call.rules :
          /\ IsActive(k) /\ Outcome(1, k) = "raise"
          /\ PriorityOf(k) > PriorityOf(m)
          /\ m \in Matching(1) /\ CategorizedBy(1, m)
    /\ call.applied[2] # <<>>

----------------------------------------------------------------------------
(* SpecPasses: the pages that run categorization passes, and rule edits in between *)

Absent == [present |-> FALSE, df |-> <<>>]
Cached(df) == [present |-> TRUE, df |-> df]

\* the rules documents of this specification: every key written out, as the
\* rule editor saves them
SavedRuleOptions ==
    {o \in RuleOptions : o.priority.has /\ o.active.has /\ o.conditions = CondA}

SavedRuleDocs ==
    UNION {{[k \in 1..n |-> Rule(k, choice[k])] : choice \in [1..n -> SavedRuleOptions]}
            : n \in 0..MaxRules}

PassesIdle ==
    /\ training_file = <<>> /\ saved = <<>> /\ merge = <<>>
    /\ pipeline = <<>> /\ model_file = <<>> /\ loaded = <<>> /\ prediction = <<>>
    /\ NoFunctionCalls

PassesInit ==
    /\ rules_file \in SavedRuleDocs
    /\ call = NoCall
    /\ rule_performance = NoPerformance
    /\ session = [all_transactions |-> Absent, rule_categorized_transactions |-> Absent,
                  transactions_with_categories |-> Absent]
    /\ PassesIdle

PassesFrame == UNCHANGED <<function_calls, training_file, saved, merge, pipeline, model_file, loaded, prediction>>

\* one run of apply_rules_to_transactions from a page, the session's mapping before it given
run_pass(transactions_df, performance) ==
    /\ call' = apply_rules_to_transactions(transactions_df, rules_file, performance)
    /\ rule_performance' = call'.rule_performance

\* pages/data_loader.py, data_loader(): the first visit loads and categorizes
DataLoaderVisit ==
    /\ ~session.transactions_with_categories.present
    /\ \E transactions_df \in LoadedTables :
          /\ run_pass(transactions_df, rule_performance)
          /\ session' = [session EXCEPT !.transactions_with_categories = Cached(call'.df)]
    /\ UNCHANGED rules_file
    /\ PassesFrame

\* "Refresh & Reapply Rules": both keys are deleted, and the rerun loads and categorizes again
DataLoaderRefresh ==
    /\ session.transactions_with_categories.present
    /\ \E transactions_df \in LoadedTables :
          /\ run_pass(transactions_df, NoPerformance)
          /\ session' = [session EXCEPT !.transactions_with_categories = Cached(call'.df)]
    /\ UNCHANGED rules_file
    /\ PassesFrame

\* pages/transaction_matcher.py, transaction_matcher(): the first visit loads the
\* transactions (an empty load ends the page) and categorizes them
first_visit ==
    /\ ~session.all_transactions.present
    /\ \E all_transactions \in LoadedTables \ {<<>>} :
          /\ run_pass(all_transactions, rule_performance)
          /\ session' = [session EXCEPT !.all_transactions = Cached(all_transactions),
                                        !.rule_categorized_transactions = Cached(call'.df)]
    /\ UNCHANGED rules_file

MatcherVisit == first_visit /\ PassesFrame

\* "Refresh Rules": the cached rule results are deleted, and the rerun applies
\* the rules to the cached transactions again
MatcherRefreshRules ==
    /\ session.all_transactions.present
    /\ run_pass(session.all_transactions.df, rule_performance)
    /\ session' = [session EXCEPT !.rule_categorized_transactions = Cached(call'.df)]
    /\ UNCHANGED rules_file
    /\ PassesFrame

\* "Clear Cache": both frames are deleted, and the rerun loads and categorizes again
MatcherClearCache ==
    /\ session.all_transactions.present
    /\ \E all_transactions \in LoadedTables \ {<<>>} :
          /\ run_pass(all_transactions, rule_performance)
          /\ session' = [session EXCEPT !.all_transactions = Cached(all_transactions),
                                        !.rule_categorized_transactions = Cached(call'.df)]
    /\ UNCHANGED rules_file
    /\ PassesFrame

\* pages/rule_management.py, the edit form: rule k is saved with the form's
\* active flag, every key written out
UpdateRule ==
    /\ \E k \in DOMAIN rules_file : \E is_active \in BOOLEAN :
          rules_file' = [rules_file EXCEPT ![k] =
              set_col(set_col(rules_file[k], "priority", priority_key(rules_file[k])),
                      "active", is_active)]
    /\ UNCHANGED <<call, rule_performance, session>>
    /\ PassesFrame

PassesNext ==
    \/ DataLoaderVisit
    \/ DataLoaderRefresh
    \/ MatcherVisit
    \/ MatcherRefreshRules
    \/ MatcherClearCache
    \/ UpdateRule

SpecPasses == PassesInit /\ [][PassesNext]_vars

\* the number of rows of the most recent pass to which a rule was applied
CategorizedRows == Cardinality({i \in DOMAIN call.applied : call.applied[i] # <<>>})

RECURSIVE SumOver(_, _)
SumOver(f, S) ==
    IF S = {} THEN 0 ELSE LET x == CHOOSE y \in S : TRUE IN f[x] + SumOver(f, S \ {x})

\* the mapping the session publishes; no mapping reads as no matches
Published == IF rule_performance.present THEN rule_performance.value ELSE NoMatches

\* C8 (match counts belong to the run): after every pass the published mapping
\* gives, for each rule id, the number of rows that rule categorized in that
\* pass, and the counts sum to the number of rows a rule categorized in it.
C8_CountsOfTheRun ==
    call.kind = "pass" =>
        /\ \A id \in RuleIds :
              Published[id] = Cardinality({i \in DOMAIN call.applied : call.applied[i] = <<id>>})
        /\ SumOver(Published, RuleIds) = CategorizedRows

----------------------------------------------------------------------------
(* pages/transaction_matcher.py: the store of categorized transactions *)

\* data/categorized_transactions.csv: the text of its cells, row by row, the
\* columns Transaction_ID, Category, Subcategory and Source (Date_Categorized,
\* the time of the save, is left out).  A file that exists may be one that
\* read_csv cannot parse.
NoFile == [exists |-> FALSE, readable |-> FALSE, rows |-> <<>>]
DamagedFile == [exists |-> TRUE, readable |-> FALSE, rows |-> <<>>]
CsvFile(rows) == [exists |-> TRUE, readable |-> TRUE, rows |-> rows]

\* the cell texts pd.read_csv reads as NaN (keep_default_na) that the model's
\* alphabet can spell
NaValues == {<<>>, <<"N", "A">>, <<"N", "/", "A">>, <<"N", "a", "N">>, <<"n", "a", "n">>,
             <<"N", "o", "n", "e">>, <<"n", "u", "l", "l">>}

\* pd.read_csv on one cell of a text column, DataFrame.to_csv on one cell
read_cell(text) == IF text \in NaValues THEN NaN ELSE Str(text)
write_cell(value) == IF isna(value) THEN <<>> ELSE str(value)

read_csv(file) == [i \in DOMAIN file.rows |-> [c \in DOMAIN file.rows[i] |-> read_cell(file.rows[i][c])]]
to_csv(df) == [i \in DOMAIN df |-> [c \in DOMAIN df[i] |-> write_cell(df[i][c])]]

\* lines 28-34
new_record(transaction_id, category, subcategory, source) ==
    [Transaction_ID |-> Str(transaction_id), Category |-> Str(category),
     Subcategory |-> Str(subcategory), Source |-> Str(source)]

\* existing_df[existing_df['Transaction_ID'] != transaction_id]
without_id(existing_df, transaction_id) ==
    SelectSeq(existing_df, LAMBDA row : row.Transaction_ID # Str(transaction_id))

\* lines 37-47: new_df
upsert(file, transaction_id, record) ==
    IF file.exists /\ file.readable
    THEN Append(without_id(read_csv(file), transaction_id), record)
    ELSE <<record>>

\* save_categorized_transaction: the file afterwards and the value returned;
\* `writable` is whether to_csv can write the file
save_categorized_transaction(file, transaction_id, category, subcategory, source, writable) ==
    IF writable
    THEN [file |-> CsvFile(to_csv(upsert(file, transaction_id,
                                         new_record(transaction_id, category, subcategory, source)))),
          result |-> TRUE]
    ELSE [file |-> file, result |-> FALSE]

\* load_categorized_transactions
load_categorized_transactions(file) ==
    IF file.exists /\ file.readable THEN read_csv(file) ELSE <<>>

\* lines 145-146, 164-165: dropna(subset=['Category']) and Category.str.strip() != ''
has_category(row) == ~isna(row.Category) /\ strip(str(row.Category)) # <<>>

\* lines 143-152, 161-169: the rule results in the store's columns
rule_formatted(rows) ==
    [i \in DOMAIN rows |->
        [Transaction_ID |-> rows[i].Transaction_ID, Category |-> rows[i].Category,
         Subcategory |-> rows[i].Subcategory, Source |-> rows[i].Categorization_Source]]

rule_only_all(categorized_transactions, manual_categorizations) == categorized_transactions

\* lines 139-141: the rule results of the transactions without a manual categorization
rule_only(categorized_transactions, manual_categorizations) ==
    SelectSeq(categorized_transactions,
              LAMBDA row : \A i \in DOMAIN manual_categorizations :
                               manual_categorizations[i].Transaction_ID # row.Transaction_ID)

\* lines 134-171: categorized_df
merge_categorizations(manual_categorizations, categorized_transactions) ==
    IF manual_categorizations # <<>>
    THEN manual_categorizations \o
         rule_formatted(SelectSeq(rule_only(categorized_transactions, manual_categorizations),
                                  has_category))
    ELSE rule_formatted(SelectSeq(categorized_transactions, has_category))

NoMerge == [ran |-> FALSE, manual_categorizations |-> <<>>, categorized_df |-> <<>>]

\* lines 130-171 of a run of the page
merged(manual_categorizations, categorized_transactions) ==
    [ran |-> TRUE, manual_categorizations |-> manual_categorizations,
     categorized_df |-> merge_categorizations(manual_categorizations, categorized_transactions)]

----------------------------------------------------------------------------
(* SpecStore: the matcher page with its store: loading, saving a category,
   removing one, each followed by the rerun of the page that merges *)

\* the categories the form offers, as Category Management holds them
NotApplicable == <<"N", "/", "A">>
Labels == {[category |-> Food, subcategory |-> Groceries],
           [category |-> NotApplicable, subcategory |-> Groceries]}

Unsaved == [has |-> FALSE, category |-> <<>>, subcategory |-> <<>>]
Saved(category, subcategory) == [has |-> TRUE, category |-> category, subcategory |-> subcategory]

\* the Transaction_ID texts of the loaded transactions
Ids == {Statement[i].Transaction_ID.v : i \in 1..MaxTx}

\* the rules documents of this specification, every key written out
StoreRuleDocs ==
    LET options == {o \in RuleOptions : o.priority.has /\ o.active.has}
    IN  UNION {{[k \in 1..n |-> Rule(k, choice[k])] : choice \in [1..n -> options]} : n \in 0..MaxRules}

StoreFrame == UNCHANGED <<function_calls, pipeline, model_file, loaded, prediction>>

StoreInit ==
    /\ rules_file \in StoreRuleDocs
    /\ call = NoCall
    /\ rule_performance = NoPerformance
    /\ session = [all_transactions |-> Absent, rule_categorized_transactions |-> Absent,
                  transactions_with_categories |-> Absent]
    /\ training_file \in {NoFile, DamagedFile}
    /\ saved = [id \in Ids |-> Unsaved]
    /\ merge = NoMerge
    /\ pipeline = <<>> /\ model_file = <<>> /\ loaded = <<>> /\ prediction = <<>>
    /\ NoFunctionCalls

\* the first visit of the page: load, categorize, merge
StoreVisit ==
    /\ first_visit
    /\ merge' = merged(load_categorized_transactions(training_file), call'.df)
    /\ UNCHANGED <<training_file, saved>>
    /\ StoreFrame

\* what "Save Category" leaves: the file, the history, and the merge of the
\* rerun that follows a successful save
after_save(outcome, transaction_id, label) ==
    /\ training_file' = outcome.file
    /\ saved' = IF outcome.result
                THEN [saved EXCEPT ![transaction_id] = Saved(label.category, label.subcategory)]
                ELSE saved
    /\ merge' = IF outcome.result
                THEN merged(load_categorized_transactions(outcome.file),
                            session.rule_categorized_transactions.df)
                ELSE merge

\* lines 580-588: save_categorized_transaction is called for a loaded
\* transaction with a label of the form, and a successful save reruns the
\* page.  The call is taken for any loaded transaction, also one that already
\* has a stored row: the function does not depend on what the page showed.
SaveCategory ==
    /\ session.all_transactions.present
    /\ \E i \in DOMAIN session.all_transactions.df : \E label \in Labels : \E writable \in BOOLEAN :
          after_save(save_categorized_transaction(training_file,
                                                  session.all_transactions.df[i].Transaction_ID.v,
                                                  label.category, label.subcategory, Manual, writable),
                     session.all_transactions.df[i].Transaction_ID.v, label)
    /\ UNCHANGED <<rules_file, call, rule_performance, session>>
    /\ StoreFrame

\* lines 608-617: the file without the rows of transaction_id, and the rerun
after_removal(file, transaction_id) ==
    /\ training_file' = file
    /\ saved' = IF transaction_id \in Ids THEN [saved EXCEPT ![transaction_id] = Unsaved] ELSE saved
    /\ merge' = merged(load_categorized_transactions(file), session.rule_categorized_transactions.df)

\* "Re-categorize" on a transaction the merge shows as categorized; a file that
\* cannot be read leaves everything as it is (lines 618-619)
Recategorize ==
    /\ merge.ran
    /\ training_file.exists /\ training_file.readable
    /\ \E j \in DOMAIN merge.categorized_df :
          after_removal(CsvFile(to_csv(without_id(read_csv(training_file),
                                                  str(merge.categorized_df[j].Transaction_ID)))),
                        str(merge.categorized_df[j].Transaction_ID))
    /\ UNCHANGED <<rules_file, call, rule_performance, session>>
    /\ StoreFrame

StoreNext ==
    \/ StoreVisit
    \/ SaveCategory
    \/ Recategorize

SpecStore == StoreInit /\ [][StoreNext]_vars

\* the rows of the merged set with the Transaction_ID of row i of the loaded store
MergedFor(i) ==
    {j \in DOMAIN merge.categorized_df :
        merge.categorized_df[j].Transaction_ID = merge.manual_categorizations[i].Transaction_ID}

\* C4 (manual precedence): in every merge, each transaction id of the loaded
\* manual categorizations appears exactly once in the merged set, and its row
\* is the manual one (category, subcategory and source), whatever the rules
\* made of that transaction.
C4_ManualPrecedence ==
    merge.ran =>
        \A i \in DOMAIN merge.manual_categorizations :
            /\ Cardinality(MergedFor(i)) = 1
            /\ \A j \in MergedFor(i) : merge.categorized_df[j] = merge.manual_categorizations[i]

\* C4 witness: a merge in which a transaction labelled Food by hand was also
\* categorized by a rule, and the merged set holds a rule row for another one.
C4_Witness ==
    /\ merge.ran
    /\ \E i \in DOMAIN merge.manual_categorizations :
          /\ merge.manual_categorizations[i].Category = Str(Food)
          /\ \E r \in DOMAIN session.rule_categorized_transactions.df :
                /\ session.rule_categorized_transactions.df[r].Transaction_ID
                      = merge.manual_categorizations[i].Transaction_ID
                /\ has_category(session.rule_categorized_transactions.df[r])
    /\ Len(merge.categorized_df) > Len(merge.manual_categorizations)

\* the rows of the file stored for a Transaction_ID
StoredFor(id) == {i \in DOMAIN training_file.rows : training_file.rows[i].Transaction_ID = id}

\* C5 (manual upsert): the store holds exactly one row for every Transaction_ID
\* saved (and not removed since), and the row carries the category and
\* subcategory of the most recent save for that id.
C5_ManualUpsert ==
    \A id \in DOMAIN saved :
        saved[id].has =>
            /\ Cardinality(StoredFor(id)) = 1
            /\ \A i \in StoredFor(id) :
                  /\ training_file.rows[i].Category = saved[id].category
                  /\ training_file.rows[i].Subcategory = saved[id].subcategory

----------------------------------------------------------------------------
(* src/ml_categorizer.py: MLCategorizer *)

\* self.subcategories in the order of the configuration: full category name and keywords
Subcategories ==
    <<[category |-> "Food_Groc", keywords |-> << <<"A", "H">> >>],
      [category |-> "Misc_Other", keywords |-> <<>>],
      [category |-> "Home_Rent", keywords |-> << <<"h">>, <<"r">> >>]>>

\* self.category_to_main.get(x, 'unknown')
category_to_main(category) ==
    CASE category = "Food_Groc" -> "Food"
      [] category = "Misc_Other" -> "Misc"
      [] category = "Home_Rent" -> "Home"
      [] OTHER -> "unknown"

\* fillna('')
fillna(x) == IF isna(x) THEN <<>> ELSE str(x)

\* lines 112-115: the text the keywords are matched against
text_data(row) ==
    IF "counterparty" \in DOMAIN row
    THEN lower(fillna(row.description)) \o <<" ">> \o lower(fillna(row.counterparty))
    ELSE lower(fillna(row.description))

\* lines 125-126: the pattern of lower-cased, escaped keywords matches the text
mask(text, keywords) == \E k \in DOMAIN keywords : contains(lower(text), lower(keywords[k]))

\* lines 120-130 from subcategory k on: the first category with a keyword in
\* the text classifies the row, later ones do not change it
RECURSIVE classify(_, _)
classify(text, k) ==
    IF k > Len(Subcategories) THEN "unknown"
    ELSE IF Subcategories[k].keywords # <<>> /\ mask(text, Subcategories[k].keywords)
         THEN Subcategories[k].category
    ELSE classify(text, k + 1)

\* rule_based_categorization
rule_based_categorization(df) ==
    [i \in DOMAIN df |-> IF "description" \notin DOMAIN df[i] THEN "unknown"
                         ELSE classify(text_data(df[i]), 1)]

\* self.ml_config.get('confidence_threshold', 0.7), in hundredths
DefaultThreshold == 70

\* lines 229-230: confidence_threshold, None replaced
threshold_of(confidence_threshold) ==
    IF confidence_threshold.has THEN confidence_threshold.v ELSE DefaultThreshold

\* line 258: max_probabilities >= confidence_threshold
qualifies_strict(confidence, confidence_threshold) == confidence > confidence_threshold

qualifies(confidence, confidence_threshold) == confidence >= confidence_threshold

\* lines 258, 259, 262, 263: ml_mask on one row
ml_mask(category_rule, confidence, confidence_threshold) ==
    category_rule = "unknown" /\ qualifies(confidence, confidence_threshold)

result_row(category_rule, category_ml, ml_confidence, category_final, prediction_method) ==
    [category_rule |-> category_rule, category_ml |-> category_ml, ml_confidence |-> ml_confidence,
     category_final |-> category_final, prediction_method |-> prediction_method,
     main_category |-> category_to_main(category_final)]

\* lines 246-263 and 276-280 on one row
compose(category_rule, ml, use) ==
    result_row(category_rule, ml.label, ml.confidence,
               IF use THEN ml.label ELSE category_rule,
               IF use THEN "ml" ELSE "rule")

\* lines 242-263: the model's predictions composed with the rule predictions
with_model(rule_predictions, ml, confidence_threshold) ==
    [i \in DOMAIN rule_predictions |->
        compose(rule_predictions[i], ml[i],
                ml_mask(rule_predictions[i], ml[i].confidence, confidence_threshold))]

on_error_unknown(rule_predictions) ==
    [i \in DOMAIN rule_predictions |-> result_row(rule_predictions[i], "unknown", 0, "unknown", "rule")]

\* lines 265-270: the prediction step raised
on_error(rule_predictions) ==
    [i \in DOMAIN rule_predictions |->
        result_row(rule_predictions[i], "unknown", 0, rule_predictions[i], "rule")]

\* lines 271-275: use_ml is false or there is no pipeline
without_model(rule_predictions) ==
    [i \in DOMAIN rule_predictions |->
        result_row(rule_predictions[i], "unknown", 0, rule_predictions[i], "rule")]

\* lines 238-275; `predicted` is what pipeline.predict / predict_proba did
results_df(rule_predictions, use_ml, confidence_threshold, the_pipeline, predicted) ==
    IF use_ml /\ the_pipeline # "None"
    THEN (IF predicted.raises
          THEN on_error(rule_predictions)
          ELSE with_model(rule_predictions, predicted.ml, confidence_threshold))
    ELSE without_model(rule_predictions)

\* predict_categories(df, use_ml, confidence_threshold) on an MLCategorizer whose
\* pipeline is the_pipeline, after a load_model call that ended as `last_load`
predict_categories(df, use_ml, confidence_threshold, the_pipeline, predicted, last_load) ==
    [kind |-> "frame", df |-> df, use_ml |-> use_ml,
     confidence_threshold |-> threshold_of(confidence_threshold),
     pipeline |-> the_pipeline,
     load_failed |-> last_load.called /\ ~last_load.result,
     raised |-> use_ml /\ the_pipeline # "None" /\ predicted.raises,
     rows |-> results_df(rule_based_categorization(df), use_ml,
                         threshold_of(confidence_threshold), the_pipeline, predicted)]

\* load_model: the pipeline afterwards and the value returned
load_model(the_pipeline, file) ==
    IF file = "absent" THEN [pipeline |-> the_pipeline, result |-> FALSE]
    ELSE IF file = "corrupt" THEN [pipeline |-> the_pipeline, result |-> FALSE]
    ELSE [pipeline |-> file, result |-> TRUE]

----------------------------------------------------------------------------
(* SpecML: one MLCategorizer: training, saving and loading its model, predicting *)

\* the frames predict_categories is given: lower-case columns, the description
\* a text or missing
Row1 == [description |-> Str(<<"A", "H">>), amount |-> Float_(-12)]
Row2 == [description |-> Str(<<"N", "F">>), amount |-> Float_(-45)]
Row3 == [description |-> NaN, amount |-> Float_(30)]
Row4 == [description |-> Str(<<"H", "F">>), amount |-> Float_(7)]
Frame == <<Row1, Row2, Row3, Row4>>

\* a frame without a description column
Amounts == <<[amount |-> Float_(-12)]>>

Frames == {rows_of(Frame, S) : S \in SUBSET (1..MaxTx)} \cup {Amounts}

\* confidence_threshold: None, or a number of hundredths
NoThreshold == [has |-> FALSE, v |-> 0]
Thresholds == {NoThreshold, Key(50)}

\* what a fitted pipeline may predict for a row: a category it was trained on
\* and the highest class probability, in hundredths
Predictions == [label : {"Home_Rent"}, confidence : {65, 70}]

\* what lines 243-244 can do on the frame: a fitted pipeline predicts or
\* raises, one that was never fitted raises, and otherwise it is not asked
Raises == [raises |-> TRUE, ml |-> <<>>]
NotAsked == [raises |-> FALSE, ml |-> <<>>]
Predicted(df, use_ml, the_pipeline) ==
    IF use_ml /\ the_pipeline = "fitted"
    THEN {[raises |-> FALSE, ml |-> ml] : ml \in [DOMAIN df -> Predictions]} \cup {Raises}
    ELSE IF use_ml /\ the_pipeline = "unfitted" THEN {Raises}
    ELSE {NotAsked}

NoLoad == [called |-> FALSE, result |-> FALSE, file |-> "absent", before |-> "None", after |-> "None"]
NoPrediction == [kind |-> "none"]

MLFrame == UNCHANGED <<function_calls, rules_file, call, rule_performance, session, training_file, saved, merge>>

MLInit ==
    /\ pipeline = "None"
    /\ model_file \in {"absent", "corrupt", "fitted"}
    /\ loaded = NoLoad
    /\ prediction = NoPrediction
    /\ rules_file = <<>> /\ call = <<>> /\ rule_performance = <<>> /\ session = <<>>
    /\ training_file = <<>> /\ saved = <<>> /\ merge = <<>>
    /\ NoFunctionCalls

\* train_model: it raises before line 177 (no usable training data, or the
\* split fails) and leaves the pipeline; or fit raises at line 196 on the new,
\* unfitted pipeline; or it trains
TrainModel ==
    /\ \E outcome \in {"rejected", "fit_raises", "trained"} :
          pipeline' = CASE outcome = "rejected" -> pipeline
                        [] outcome = "fit_raises" -> "unfitted"
                        [] OTHER -> "fitted"
    /\ UNCHANGED <<model_file, loaded, prediction>>
    /\ MLFrame

\* save_model: joblib.dump of the pipeline (it raises when there is none)
SaveModel ==
    /\ pipeline # "None"
    /\ model_file' = pipeline
    /\ UNCHANGED <<pipeline, loaded, prediction>>
    /\ MLFrame

LoadModel ==
    /\ pipeline' = load_model(pipeline, model_file).pipeline
    /\ loaded' = [called |-> TRUE, result |-> load_model(pipeline, model_file).result,
                  file |-> model_file, before |-> pipeline, after |-> pipeline']
    /\ UNCHANGED <<model_file, prediction>>
    /\ MLFrame

PredictCategories ==
    /\ \E df \in Frames : \E use_ml \in BOOLEAN : \E confidence_threshold \in Thresholds :
       \E predicted \in Predicted(df, use_ml, pipeline) :
          prediction' = predict_categories(df, use_ml, confidence_threshold, pipeline, predicted,
                                           loaded)
    /\ UNCHANGED <<pipeline, model_file, loaded>>
    /\ MLFrame

MLNext ==
    \/ TrainModel
    \/ SaveModel
    \/ LoadModel
    \/ PredictCategories

SpecML == MLInit /\ [][MLNext]_vars

\* C9 (composer decision): in every result of predict_categories, a row whose
\* rule prediction is not 'unknown' has that as its final category with method
\* 'rule'; otherwise, an ML confidence of at least the threshold (0.7 when none
\* is given) makes the ML prediction final with method 'ml'; otherwise the
\* final category is 'unknown' with method 'rule'.
C9_ComposerDecision ==
    prediction.kind = "frame" =>
        \A i \in DOMAIN prediction.rows :
            LET row == prediction.rows[i]
            IN  IF row.category_rule # "unknown"
                THEN row.category_final = row.category_rule /\ row.prediction_method = "rule"
                ELSE IF row.ml_confidence >= prediction.confidence_threshold
                THEN row.category_final = row.category_ml /\ row.prediction_method = "ml"
                ELSE row.category_final = "unknown" /\ row.prediction_method = "rule"

\* C9 witness: under the default threshold, one result with a row decided by the
\* rules, a row whose ML confidence equals the threshold and is decided by the
\* model, and a row below the threshold left 'unknown'.
C9_Witness ==
    /\ prediction.kind = "frame"
    /\ prediction.confidence_threshold = DefaultThreshold
    /\ \E i, j \in DOMAIN prediction.rows :
          /\ prediction.rows[i].category_rule = "unknown"
          /\ prediction.rows[i].ml_confidence = DefaultThreshold
          /\ prediction.rows[i].prediction_method = "ml"
          /\ prediction.rows[j].category_rule # "unknown"
          /\ prediction.rows[j].ml_confidence = DefaultThreshold
          /\ prediction.rows[j].category_final = prediction.rows[j].category_rule

\* the result is rule-only on every row
RuleOnly ==
    /\ prediction.rows = without_model(rule_based_categorization(prediction.df))
    /\ \A i \in DOMAIN prediction.rows :
          /\ prediction.rows[i].category_final = prediction.rows[i].category_rule
          /\ prediction.rows[i].prediction_method = "rule"
          /\ prediction.rows[i].category_ml = "unknown"
          /\ prediction.rows[i].ml_confidence = 0

\* a load_model call on a missing or unreadable file returned False
LoadReportsFailure ==
    (loaded.called /\ loaded.file \in {"absent", "corrupt"}) => ~loaded.result

----------------------------------------------------------------------------
(* SpecTree: evaluate_rule_conditions on condition trees, and the rule engine's
   loop on a rule that has the tree as its conditions *)

MaxDepth == 2       \* nesting depth of a condition tree

\* a composite node; the document may leave the operator out
Node(operator, rules) ==
    IF operator = "" THEN [rules |-> rules] ELSE [operator |-> operator, rules |-> rules]

Leaves == {CondA, CondN}

\* the lists of children: none, one node, or a node beside a leaf
Children(nodes) ==
    {<<>>} \cup {<<x>> : x \in nodes} \cup {<<x, l>> : x \in nodes, l \in Leaves}
           \cup {<<l, x>> : l \in Leaves, x \in nodes}

\* the trees nested at most d deep; a composite may also lack its 'rules' key
RECURSIVE Trees(_)
Trees(d) ==
    IF d = 0 THEN Leaves
    ELSE Trees(d - 1) \cup {[operator |-> "AND"], [operator |-> "OR"]}
         \cup {Node(operator, rules) : operator \in {"", "AND", "OR", "XOR"},
                                       rules \in Children(Trees(d - 1))}

\* a rule of the document with these conditions
RuleWith(conditions) ==
    [id |-> "r1", name |-> NameAt(1), category |-> CategoryAt(1), subcategory |-> SubcategoryAt(1),
     conditions |-> conditions]

Pending == "pending"

TreeInit ==
    /\ evaluation \in [kind : {"tree"}, transaction : {reset_columns(Statement[i]) : i \in 1..MaxTx},
                       conditions : Trees(MaxDepth) \cup {EmptyDict},
                       result : {Pending}, applied : {Pending}]
    /\ PagesIdle /\ directory = <<>> /\ loads = <<>> /\ cleaning = <<>> /\ standardized = <<>>
    /\ FlowsIdle

TreeFrame == UNCHANGED <<pages, directory, loads, cleaning, standardized, flows>>

\* evaluate_rule_conditions(transaction, conditions), and lines 134-162 on the
\* transaction with the one rule
EvaluateTree ==
    /\ evaluation.result = Pending
    /\ evaluation' = [evaluation EXCEPT
          !.result = evaluate_rule_conditions(evaluation.transaction, evaluation.conditions),
          !.applied = test_rules(evaluation.transaction, <<RuleWith(evaluation.conditions)>>, 1)]
    /\ TreeFrame

TreeNext == EvaluateTree

SpecTree == TreeInit /\ [][TreeNext]_vars

\* the composite nodes of a tree, the tree itself included
RECURSIVE Composites(_)
Composites(node) ==
    IF "field" \in DOMAIN node \/ node = EmptyDict THEN {}
    ELSE {node} \cup (IF "rules" \in DOMAIN node
                      THEN UNION {Composites(node.rules[i]) : i \in DOMAIN node.rules}
                      ELSE {})

\* what evaluate_rule_conditions returns for a node on the evaluated transaction
Returns(node) == evaluate_rule_conditions(evaluation.transaction, node) = "true"

\* C11 (AND/OR tree evaluation): every composite node of the tree, at any depth,
\* evaluates to false when it has no children, to the conjunction of its
\* children's results under AND or under no operator, to their disjunction
\* under OR, and to false under any other operator; a rule whose conditions are
\* empty, or a composite without children, is applied to no transaction.
C11_TreeEvaluation ==
    evaluation.result # Pending =>
        /\ \A node \in Composites(evaluation.conditions) :
              LET operator == IF "operator" \in DOMAIN node THEN node.operator ELSE "AND"
                  rules == IF "rules" \in DOMAIN node THEN node.rules ELSE <<>>
              IN  Returns(node) =
                      CASE rules = <<>> -> FALSE
                        [] rules # <<>> /\ operator = "AND" -> \A i \in DOMAIN rules : Returns(rules[i])
                        [] rules # <<>> /\ operator = "OR" -> \E i \in DOMAIN rules : Returns(rules[i])
                        [] OTHER -> FALSE
        /\ (evaluation.result = "true") = Returns(evaluation.conditions)
        /\ (evaluation.conditions = EmptyDict
              \/ (evaluation.conditions # EmptyDict /\ "field" \notin DOMAIN evaluation.conditions
                  /\ get(evaluation.conditions, "rules", <<>>) = <<>>))
           => evaluation.applied = <<>>

\* C11 witness: a tree without an operator at the root, holding an OR node with
\* two children, evaluated to true and the rule applied.
C11_Witness ==
    /\ evaluation.result = "true"
    /\ evaluation.applied = <<1>>
    /\ "operator" \notin DOMAIN evaluation.conditions
    /\ "rules" \in DOMAIN evaluation.conditions
    /\ \E i \in DOMAIN evaluation.conditions.rules :
          /\ "rules" \in DOMAIN evaluation.conditions.rules[i]
          /\ get(evaluation.conditions.rules[i], "operator", "") = "OR"
          /\ Len(evaluation.conditions.rules[i].rules) = 2

----------------------------------------------------------------------------
(* SpecCondition: one leaf condition evaluated by the rule engine's
   evaluate_condition (pages/data_loader.py) and by the rule preview's
   (pages/rule_management.py) *)

MaxLen == 2         \* length of a field text, tokens of a pattern

Alphabet == {"a", "A", "1"}

RECURSIVE Texts(_)
Texts(n) ==
    IF n = 0 THEN {<<>>}
    ELSE Texts(n - 1) \cup {t \o <<c>> : t \in Texts(n - 1), c \in Alphabet}

Abc == <<"a", "b", "c">>
ABC == <<"A", "B", "C">>

FieldTexts == Texts(MaxLen) \cup {Abc, ABC}

FieldValues == {Str(t) : t \in FieldTexts} \cup {Int_(1), NaN}

\* the pieces of a pattern: literals, the dot, an opening parenthesis, \d and \D
Tokens == {<<"a">>, <<"A">>, <<".">>, <<"(">>, <<"\\", "d">>, <<"\\", "D">>}

RECURSIVE Patterns(_)
Patterns(n) ==
    IF n = 0 THEN {<<>>}
    ELSE Patterns(n - 1) \cup {q \o t : q \in Patterns(n - 1), t \in Tokens}

Entries == {Str(<<"a">>), Str(<<"A">>), Str(<<"A", "a">>), Int_(1)}

Lists == {List(<<>>)} \cup {List(<<x>>) : x \in Entries} \cup {List(<<x, y>>) : x, y \in Entries}

NoCase == [has |-> FALSE, v |-> FALSE]
CaseOptions == {NoCase, Key(FALSE), Key(TRUE)}

\* a leaf of a rule's conditions; the document may leave case_sensitive out
Leaf(operator, value, case) ==
    IF case.has
    THEN [field |-> "Description", operator |-> operator, value |-> value, case_sensitive |-> case.v]
    ELSE [field |-> "Description", operator |-> operator, value |-> value]

StringOperators == {"contains", "equals", "starts_with", "ends_with"}

LeafConditions ==
    {Leaf(operator, Str(t), case) : operator \in StringOperators, t \in FieldTexts, case \in CaseOptions}
    \cup {Leaf("in", value, case) :
             value \in Lists \cup {Str(t) : t \in Texts(1)} \cup {Int_(1)}, case \in CaseOptions}
    \cup {Leaf("regex", Str(q), case) : q \in Patterns(MaxLen), case \in CaseOptions}
    \cup {Leaf("between", List(<<Int_(0), x>>), NoCase) : x \in {Int_(0), Int_(1)}}
    \cup {Leaf("greater_than", Int_(0), NoCase)}

Verdict(b) == IF b THEN "true" ELSE "false"

ConditionInit ==
    /\ evaluation \in [kind : {"condition"}, transaction : {[Description |-> x] : x \in FieldValues},
                       condition : LeafConditions, engine : {Pending}, preview : {Pending}]
    /\ PagesIdle /\ directory = <<>> /\ loads = <<>> /\ cleaning = <<>> /\ standardized = <<>>
    /\ FlowsIdle

\* pages/data_loader.py evaluate_condition(transaction, condition)
EngineEvaluate ==
    /\ evaluation.engine = Pending
    /\ evaluation' = [evaluation EXCEPT
          !.engine = Verdict(evaluate_condition(evaluation.transaction, evaluation.condition))]
    /\ TreeFrame

\* pages/rule_management.py evaluate_condition(transaction, condition)
PreviewEvaluate ==
    /\ evaluation.preview = Pending
    /\ evaluation' = [evaluation EXCEPT
          !.preview = Verdict(preview_evaluate_condition(evaluation.transaction, evaluation.condition))]
    /\ TreeFrame

ConditionNext == EngineEvaluate \/ PreviewEvaluate

SpecCondition == ConditionInit /\ [][ConditionNext]_vars

\* the evaluated condition's parts, and the strings of the field and the value
TheField == evaluation.transaction.Description
TheOperator == evaluation.condition.operator
TheValue == evaluation.condition.value
CaseSensitive == get(evaluation.condition, "case_sensitive", FALSE)
FieldStr == str(TheField)
ValueStr == str(TheValue)

\* both evaluators, once they returned, returned b
BothReturn(b) ==
    /\ evaluation.engine # Pending => evaluation.engine = Verdict(b)
    /\ evaluation.preview # Pending => evaluation.preview = Verdict(b)

\* two strings that differ in letter case only
SameText(s, t) == Len(s) = Len(t) /\ \A i \in DOMAIN s : lower_char(s[i]) = lower_char(t[i])

\* a string operator on exact strings, and on strings up to letter case
Exactly(operator, f, v) ==
    CASE operator = "contains" -> \E i \in 0..(Len(f) - Len(v)) : SubSeq(f, i + 1, i + Len(v)) = v
      [] operator = "equals" -> f = v
      [] operator = "starts_with" -> Len(v) <= Len(f) /\ SubSeq(f, 1, Len(v)) = v
      [] operator = "ends_with" -> Len(v) <= Len(f) /\ SubSeq(f, Len(f) - Len(v) + 1, Len(f)) = v

IgnoringCase(operator, f, v) ==
    CASE operator = "contains" ->
            \E i \in 0..(Len(f) - Len(v)) : SameText(SubSeq(f, i + 1, i + Len(v)), v)
      [] operator = "equals" -> SameText(f, v)
      [] operator = "starts_with" -> Len(v) <= Len(f) /\ SameText(SubSeq(f, 1, Len(v)), v)
      [] operator = "ends_with" ->
            Len(v) <= Len(f) /\ SameText(SubSeq(f, Len(f) - Len(v) + 1, Len(f)), v)

\* C12 (case sensitivity of string operators): for contains, equals,
\* starts_with and ends_with on a field that is not NaN, both evaluators compare
\* the strings up to letter case unless case_sensitive is true, and exactly when
\* it is; field 'abc' equals value 'ABC' is true without case sensitivity and
\* false with it.
C12_CaseSensitivity ==
    (evaluation.kind = "condition" /\ TheOperator \in StringOperators /\ ~isna(TheField)) =>
        /\ BothReturn(IF CaseSensitive THEN Exactly(TheOperator, FieldStr, ValueStr)
                      ELSE IgnoringCase(TheOperator, FieldStr, ValueStr))
        /\ (TheOperator = "equals" /\ FieldStr = Abc /\ ValueStr = ABC) => BothReturn(~CaseSensitive)

\* C12 witness: 'abc' equals 'ABC' evaluated true by both evaluators, the
\* condition saying case_sensitive false.
C12_Witness ==
    /\ TheOperator = "equals" /\ FieldStr = Abc /\ ValueStr = ABC
    /\ "case_sensitive" \in DOMAIN evaluation.condition /\ ~CaseSensitive
    /\ evaluation.engine = "true" /\ evaluation.preview = "true"

\* the string form of the field equals that of some entry of the list
InList(f, list, fold) ==
    \E i \in DOMAIN list : IF fold THEN SameText(f, str(list[i])) ELSE f = str(list[i])

\* C13 (the in operator): in the rule engine's evaluator and in the rule
\* preview's, an `in` condition with a list value is true exactly when the
\* field's string equals the string of some list entry, up to letter case unless
\* case_sensitive, and with a value that is no list it behaves as equals.
C13_InOperator ==
    (evaluation.kind = "condition" /\ TheOperator = "in" /\ ~isna(TheField)) =>
        BothReturn(IF TheValue.t = "list" THEN InList(FieldStr, TheValue.v, ~CaseSensitive)
                   ELSE IF CaseSensitive THEN FieldStr = ValueStr ELSE SameText(FieldStr, ValueStr))

\* C14 (the regex operator): a regex condition is true exactly when the pattern
\* given as the value, as written, compiles and is found somewhere in the
\* field's string, letter case ignored unless case_sensitive; a pattern that
\* does not compile gives false.
C14_RegexAsWritten ==
    (evaluation.kind = "condition" /\ TheOperator = "regex" /\ ~isna(TheField)) =>
        BothReturn(regex_compiles(ValueStr) /\ regex_search(ValueStr, FieldStr, ~CaseSensitive))

----------------------------------------------------------------------------
(* transaction_loader/transaction_loader.py: generate_transaction_id and
   load_all_transactions. Rows carry the English column names of lines 87-113. *)

\* str.replace of one character
replace(s, a, b) == [i \in DOMAIN s |-> IF s[i] = a THEN b ELSE s[i]]

\* re.sub(r'\s+', ' ', s)
RECURSIVE collapse(_)
collapse(s) ==
    IF Len(s) < 2 THEN s
    ELSE IF s[1] \in Whitespace /\ s[2] \in Whitespace THEN collapse(Tail(s))
    ELSE <<s[1]>> \o collapse(Tail(s))

\* lines 120-131: the combined description of a row from its Description_1 cell
description_of(cell) ==
    IF isna(cell) \/ cell = Str(<<>>) THEN Str(<<>>)
    ELSE Str(collapse(strip(<<" ">> \o str(cell))))

\* pd.to_numeric(errors='coerce') on one string
to_numeric_cell(s) ==
    IF ~float_of_str(s).ok THEN NaN
    ELSE IF \E i \in DOMAIN s : s[i] = "." THEN Float_(float_of_str(s).v)
    ELSE Int_(float_of_str(s).v)

\* a column holding a float or a missing value is float64 as a whole
upcast(column) ==
    IF \A i \in DOMAIN column : column[i].t = "int" THEN column
    ELSE [i \in DOMAIN column |-> IF column[i].t = "int" THEN Float_(column[i].v) ELSE column[i]]

\* lines 137-138: astype(str), ',' replaced by '.', pd.to_numeric
to_numeric(column) ==
    upcast([i \in DOMAIN column |-> to_numeric_cell(replace(str(column[i]), ",", "."))])

\* line 142: pd.to_datetime(errors='coerce') on one cell; the dates of the
\* model are runs of digits
to_datetime(cell) ==
    IF cell.t = "str" /\ cell.v # <<>> /\ \A i \in DOMAIN cell.v : cell.v[i] \in DigitChars
    THEN Timestamp(cell.v) ELSE NaT

\* hashlib.md5(...).hexdigest()[:8]: 32 bits of a digest, under which different
\* strings can collide; modelled by the sum of the character codes in 8 digits
CharTable ==
    <<"0", "1", "2", "3", "4", "5", "6", "7", "8", "9", " ", "|", ".", ",", ":", "-",
      "A", "F", "H", "N", "T", "a", "n", "x">>
ord(c) == CHOOSE i \in DOMAIN CharTable : CharTable[i] = c

RECURSIVE checksum(_)
checksum(s) == IF s = <<>> THEN 0 ELSE ord(Head(s)) + checksum(Tail(s))

RECURSIVE zfill(_, _)
zfill(s, width) == IF Len(s) >= width THEN s ELSE zfill(<<"0">> \o s, width)

HexLength == 8
hexdigest(s) == zfill(digits(checksum(s)), HexLength)

\* lines 14-21: the fields an id is made of
ComponentNames ==
    <<"Date", "Amount", "Description", "Counterparty_Name", "Account_Number", "Sequence_Number">>

\* lines 15-24: '|'.join of str(row.get(name, '')) over the names
RECURSIVE join_components(_, _)
join_components(row, names) ==
    IF names = <<>> THEN <<>>
    ELSE str(get(row, Head(names), Str(<<>>)))
         \o (IF Len(names) > 1 THEN <<"|">> ELSE <<>>) \o join_components(row, Tail(names))

id_components_and_balance(row) == join_components(row, ComponentNames \o <<"Balance_After">>)

id_components(row) == join_components(row, ComponentNames)

TXN == <<"T", "X", "N", "_">>

\* lines 8-31
generate_transaction_id(row) == TXN \o hexdigest(id_components(row))

\* line 153: groupby('Transaction_ID').cumcount() at row i
cumcount(ids, i) == Cardinality({j \in 1..(i - 1) : ids[j] = ids[i]})

suffixed_once(id, sequence) == IF sequence > 0 THEN id \o <<"_", "1">> ELSE id

\* lines 154-155: the sequence number appended to the later duplicates
suffixed(id, sequence) == IF sequence > 0 THEN id \o <<"_">> \o digits(sequence) ELSE id

\* lines 149-156
disambiguate(ids) ==
    IF \E i \in DOMAIN ids : cumcount(ids, i) > 0
    THEN [i \in DOMAIN ids |-> suffixed(ids[i], cumcount(ids, i))]
    ELSE ids

\* lines 51-75: the frames of the files that load, each row with its Source_File
RECURSIVE read_files(_)
read_files(files) ==
    IF files = <<>> THEN <<>>
    ELSE (IF Head(files).readable
          THEN <<[i \in DOMAIN Head(files).rows |->
                      ("Source_File" :> Str(Head(files).name)) @@ Head(files).rows[i]]>>
          ELSE <<>>) \o read_files(Tail(files))

\* line 83: pd.concat(all_dataframes, ignore_index=True)
RECURSIVE concat(_)
concat(frames) == IF frames = <<>> THEN <<>> ELSE Head(frames) \o concat(Tail(frames))

column(rows, name) == [i \in DOMAIN rows |-> rows[i][name]]

\* lines 115-142: Description, Amount and Date of the combined frame; the
\* Sequence_Number column as the concatenation typed it
convert(rows, amounts, sequence_numbers) ==
    [i \in DOMAIN rows |->
        [Date |-> to_datetime(rows[i].Date),
         Amount |-> amounts[i],
         Description |-> description_of(rows[i].Description_1),
         Account_Number |-> rows[i].Account_Number,
         Sequence_Number |-> sequence_numbers[i],
         Balance_After |-> rows[i].Balance_After,
         Counterparty_Name |-> rows[i].Counterparty_Name,
         Source_File |-> rows[i].Source_File]]

\* lines 144-181: the ids, and the final columns
identify(rows, ids) ==
    [i \in DOMAIN rows |-> ("Transaction_ID" :> Str(ids[i])) @@ rows[i]]

with_ids(rows) ==
    identify(rows, disambiguate([i \in DOMAIN rows |-> generate_transaction_id(rows[i])]))

combine_frames(rows) ==
    with_ids(convert(rows, to_numeric(column(rows, "Amount")), upcast(column(rows, "Sequence_Number"))))

ReturnedNone == [returned |-> "None", rows |-> <<>>]

\* lines 33-187
load_all_transactions(files) ==
    IF read_files(files) = <<>> THEN ReturnedNone
    ELSE [returned |-> "frame", rows |-> combine_frames(concat(read_files(files)))]

----------------------------------------------------------------------------
(* SpecLoader: files are added to the transactions folder and the folder is
   loaded again *)

MaxFiles == 2       \* files in the folder

SourceRow(date, amount, description, sequence_number, balance) ==
    [Date |-> Str(date), Amount |-> Str(amount), Description_1 |-> description,
     Counterparty_Name |-> Str(<<"H">>), Account_Number |-> Str(<<"N">>),
     Sequence_Number |-> sequence_number, Balance_After |-> Int_(balance)]

S1 == SourceRow(<<"1">>, <<"1", "2">>, Str(<<"A", "H">>), Int_(1), 100)
\* a second transaction with the content of S1
S2 == SourceRow(<<"1">>, <<"1", "2">>, Str(<<"A", "H">>), Int_(1), 90)
\* another day and sequence number
S3 == SourceRow(<<"2">>, <<"1", "2">>, Str(<<"A", "H">>), Int_(0), 80)
\* an amount with a decimal comma
S4 == SourceRow(<<"2">>, <<"1", ",", "0">>, Str(<<"N", "F">>), Int_(2), 70)
\* a row whose date, amount, description and sequence number are unusable
S5 == SourceRow(<<"x">>, <<"x">>, NaN, NaN, 60)

File(name, readable, rows) == [name |-> name, readable |-> readable, rows |-> rows]

SourceFiles ==
    {File(<<"a">>, TRUE, <<S1>>), File(<<"b">>, TRUE, <<S2>>), File(<<"c">>, TRUE, <<S3>>),
     File(<<"d">>, TRUE, <<S4>>), File(<<"e">>, TRUE, <<S5>>), File(<<"f">>, TRUE, <<S1, S2>>),
     File(<<"g">>, FALSE, <<>>)}

NotLoaded == [files |-> <<>>, result |-> [returned |-> "never", rows |-> <<>>]]

LoaderInit ==
    /\ directory \in {<<>>} \cup {<<f>> : f \in SourceFiles}
    /\ loads = [previous |-> NotLoaded, last |-> NotLoaded]
    /\ evaluation = <<>> /\ cleaning = <<>> /\ standardized = <<>> /\ FlowsIdle
    /\ PagesIdle

\* list.insert
insert(s, i, x) == SubSeq(s, 1, i - 1) \o <<x>> \o SubSeq(s, i, Len(s))

\* a file is put into the folder; the search lists it anywhere among the others
AddFile ==
    /\ Len(directory) < MaxFiles
    /\ \E f \in SourceFiles, i \in 1..(Len(directory) + 1) :
          /\ \A j \in DOMAIN directory : directory[j].name # f.name
          /\ directory' = insert(directory, i, f)
    /\ UNCHANGED <<pages, evaluation, loads, cleaning, standardized, flows>>

\* load_all_transactions()
LoadAll ==
    /\ loads' = [previous |-> loads.last,
                 last |-> [files |-> directory, result |-> load_all_transactions(directory)]]
    /\ UNCHANGED <<pages, evaluation, directory, cleaning, standardized, flows>>

LoaderNext == AddFile \/ LoadAll

SpecLoader == LoaderInit /\ [][LoaderNext]_vars

\* the two most recent loads, and whether a load returned a frame
Previous == loads.previous
Last == loads.last
Loaded(load) == load.result.returned = "frame"
TransactionIds(load) == [i \in DOMAIN load.result.rows |-> load.result.rows[i].Transaction_ID.v]

\* the source rows behind the rows of a load: file name and position in the file
RECURSIVE Origins(_)
Origins(files) ==
    IF files = <<>> THEN <<>>
    ELSE (IF Head(files).readable
          THEN [k \in DOMAIN Head(files).rows |-> <<Head(files).name, k>>] ELSE <<>>)
         \o Origins(Tail(files))

IdOf(load, origin) ==
    TransactionIds(load)[CHOOSE i \in DOMAIN Origins(load.files) : Origins(load.files)[i] = origin]

\* the six fields of a loaded row, the base of its id, and its position among
\* the rows with that base
SixFields(row) == [name \in {ComponentNames[k] : k \in DOMAIN ComponentNames} |-> row[name]]
Base(id) == SubSeq(id, 1, Len(TXN) + HexLength)
Ordinal(ids, i) == Cardinality({j \in 1..(i - 1) : Base(ids[j]) = Base(ids[i])})

\* C15 (idempotence of ID generation): two loads of the same files in the same
\* order give the same sequence of Transaction_IDs; rows equal in date, amount,
\* description, counterparty, account and sequence number have the same base
\* id, and a row's id is its base id, followed from the second row on by the
\* row's position among the rows sharing that base.
C15_Idempotence ==
    /\ (Loaded(Previous) /\ Loaded(Last) /\ Previous.files = Last.files)
          => TransactionIds(Previous) = TransactionIds(Last)
    /\ Loaded(Last) =>
          \A i \in DOMAIN Last.result.rows :
             /\ \A j \in DOMAIN Last.result.rows :
                   SixFields(Last.result.rows[i]) = SixFields(Last.result.rows[j])
                      => Base(TransactionIds(Last)[i]) = Base(TransactionIds(Last)[j])
             /\ TransactionIds(Last)[i] =
                   IF Ordinal(TransactionIds(Last), i) = 0 THEN Base(TransactionIds(Last)[i])
                   ELSE Base(TransactionIds(Last)[i]) \o <<"_">>
                        \o digits(Ordinal(TransactionIds(Last), i))

\* C15 witness: the same folder loaded twice, a row of it carrying a suffix.
C15_Witness ==
    /\ Loaded(Previous) /\ Loaded(Last) /\ Previous.files = Last.files
    /\ \E i \in DOMAIN Last.result.rows : Ordinal(TransactionIds(Last), i) > 0

\* C16 (persistent IDs): when files were added between two loads, every source
\* row loaded both times has the same Transaction_ID in both.
C16_PersistentIds ==
    (Loaded(Previous) /\ Loaded(Last)) =>
        \A k \in DOMAIN Origins(Previous.files) :
            (\E l \in DOMAIN Origins(Last.files) : Origins(Last.files)[l] = Origins(Previous.files)[k])
               => IdOf(Last, Origins(Previous.files)[k]) = IdOf(Previous, Origins(Previous.files)[k])

\* C17 (unique IDs within a load): no two rows of a loaded frame share a
\* Transaction_ID, whether suffixed or not.
C17_UniqueIds ==
    Loaded(Last) =>
        \A i, j \in DOMAIN Last.result.rows :
            i # j => TransactionIds(Last)[i] # TransactionIds(Last)[j]

\* C17 witness: a frame of three rows with one base id, two of them of the
\* same content and one of another content.
C17_Witness ==
    /\ Loaded(Last)
    /\ \E i, j, k \in DOMAIN Last.result.rows :
          /\ i < j /\ j < k
          /\ Base(TransactionIds(Last)[i]) = Base(TransactionIds(Last)[j])
          /\ Base(TransactionIds(Last)[j]) = Base(TransactionIds(Last)[k])
          /\ \E a, b \in {i, j, k} :
                SixFields(Last.result.rows[a]) # SixFields(Last.result.rows[b])
          /\ \E a, b \in {i, j, k} :
                a # b /\ SixFields(Last.result.rows[a]) = SixFields(Last.result.rows[b])

----------------------------------------------------------------------------
(* The amount cleaners: TransactionDataLoader._clean_amount_column of
   src/data_loader.py and BankDataProcessor._clean_amount_column of
   src/data_processor.py *)

\* a parsed number: sign, digits before and after the decimal point, without
\* leading zeros before and trailing zeros after it
RECURSIVE lstrip_zeros(_)
lstrip_zeros(s) == IF s # <<>> /\ Head(s) = "0" THEN lstrip_zeros(Tail(s)) ELSE s

RECURSIVE rstrip_zeros(_)
rstrip_zeros(s) ==
    IF s # <<>> /\ s[Len(s)] = "0" THEN rstrip_zeros(SubSeq(s, 1, Len(s) - 1)) ELSE s

Number(negative, whole, fraction) ==
    [t |-> "number", whole |-> lstrip_zeros(whole), fraction |-> rstrip_zeros(fraction),
     negative |-> negative /\ (lstrip_zeros(whole) \o rstrip_zeros(fraction)) # <<>>]

\* str.rfind, 0 when the character is absent
rfind(s, c) == IF \E i \in DOMAIN s : s[i] = c THEN CHOOSE i \in DOMAIN s : s[i] = c /\ \A j \in DOMAIN s : s[j] = c => j <= i ELSE 0

\* str.replace(c, '')
remove(s, chars) == SelectSeq(s, LAMBDA c : c \notin chars)

\* float(s) and pd.to_numeric(errors='coerce') of a string of signs, digits and
\* points: a number, or NaN where the text is none
unsigned_number(negative, body) ==
    IF /\ \E i \in DOMAIN body : body[i] \in DigitChars
       /\ \A i \in DOMAIN body : body[i] \in DigitChars \cup {"."}
       /\ Cardinality({i \in DOMAIN body : body[i] = "."}) <= 1
    THEN IF rfind(body, ".") = 0 THEN Number(negative, body, <<>>)
         ELSE Number(negative, SubSeq(body, 1, rfind(body, ".") - 1),
                     SubSeq(body, rfind(body, ".") + 1, Len(body)))
    ELSE NaN

parse_number(s) ==
    IF s # <<>> /\ Head(s) \in {"-", "+"} THEN unsigned_number(Head(s) = "-", Tail(s))
    ELSE unsigned_number(FALSE, s)

\* the currency signs of lines 236 / 188 (euro, dollar, pound, yen); the cells of
\* the model carry the dollar sign
CurrencySymbols == {"$"}

\* src/data_loader.py lines 248-269: the separators of a string without spaces
separators_resolved(amount_str) ==
    IF rfind(amount_str, ",") > 0 /\ rfind(amount_str, ".") > 0
    THEN IF rfind(amount_str, ",") > rfind(amount_str, ".")
         THEN replace(remove(amount_str, {"."}), ",", ".")
         ELSE remove(amount_str, {","})
    ELSE IF rfind(amount_str, ",") > 0
    THEN IF /\ Len(amount_str) - rfind(amount_str, ",") \in {1, 2}
            /\ \A i \in (rfind(amount_str, ",") + 1)..Len(amount_str) : amount_str[i] \in DigitChars
         THEN replace(amount_str, ",", ".")
         ELSE remove(amount_str, {","})
    ELSE amount_str

\* src/data_loader.py lines 241-274
clean_amount(amount_str) ==
    IF amount_str \in {<<>>, <<"n", "a", "n">>, <<"N", "a", "N">>} THEN NaN
    ELSE parse_number(separators_resolved(remove(amount_str, {" "})))

\* src/data_loader.py lines 230-277, on one cell
clean_amount_column(cell) == clean_amount(remove(strip(str(cell)), CurrencySymbols))

\* src/data_processor.py line 193: the points followed by exactly three digits
\* are removed
thousands_points_removed(s) ==
    LET is_digit(i) == i <= Len(s) /\ s[i] \in DigitChars
        dropped == {i \in DOMAIN s : /\ s[i] = "."
                                     /\ is_digit(i + 1) /\ is_digit(i + 2) /\ is_digit(i + 3)
                                     /\ ~is_digit(i + 4)}
        kept(i) == Cardinality({j \in 1..i : j \notin dropped})
    IN  [k \in 1..(Len(s) - Cardinality(dropped)) |->
            s[CHOOSE i \in DOMAIN s : i \notin dropped /\ kept(i) = k]]

\* src/data_processor.py lines 174-201, on one cell
processor_clean_amount_column(cell) ==
    parse_number(remove(thousands_points_removed(
        replace(strip(remove(str(cell), CurrencySymbols)), ",", ".")), {" "}))

----------------------------------------------------------------------------
(* SpecAmount: one cell of an amount column cleaned by both cleaners *)

MaxGroups == 3      \* groups of digits in an amount

Groups == {<<>>, <<"1">>, <<"5", "6">>, <<"2", "3", "4">>, <<"2", "3", "4", "5">>}

\* the digit groups joined by commas and points
RECURSIVE Numerals(_)
Numerals(n) ==
    IF n = 1 THEN Groups
    ELSE Numerals(n - 1)
         \cup {a \o <<s>> \o g : a \in Numerals(n - 1), s \in {",", "."}, g \in Groups}

Prefixes == {<<>>, <<"-">>, <<"$">>, <<"$", " ">>, <<" ">>}

AmountCells ==
    {Str(q \o a) : q \in Prefixes, a \in Numerals(MaxGroups)}
    \cup {Str(<<"i", "n", "v", "a", "l", "i", "d">>), Str(<<"1", " ", "2", "3", "4", ",", "5", "6">>),
          Str(<<"1", "0", ",", "5", "0">>), NaN}

AmountInit ==
    /\ cleaning \in [cell : AmountCells, loader : {<<>>}, processor : {<<>>}]
    /\ PagesIdle /\ evaluation = <<>> /\ directory = <<>> /\ loads = <<>> /\ standardized = <<>>
    /\ FlowsIdle

AmountFrame == UNCHANGED <<pages, evaluation, directory, loads, standardized, flows>>

\* TransactionDataLoader._clean_amount_column
LoaderCleanAmount ==
    /\ cleaning.loader = <<>>
    /\ cleaning' = [cleaning EXCEPT !.loader = <<clean_amount_column(cleaning.cell)>>]
    /\ AmountFrame

\* BankDataProcessor._clean_amount_column
ProcessorCleanAmount ==
    /\ cleaning.processor = <<>>
    /\ cleaning' = [cleaning EXCEPT !.processor = <<processor_clean_amount_column(cleaning.cell)>>]
    /\ AmountFrame

AmountNext == LoaderCleanAmount \/ ProcessorCleanAmount

SpecAmount == AmountInit /\ [][AmountNext]_vars

\* the amount string once currency symbols and whitespace are gone
Stripped == remove(str(cleaning.cell), CurrencySymbols \cup Whitespace)
HasComma == \E i \in DOMAIN Stripped : Stripped[i] = ","
HasPoint == \E i \in DOMAIN Stripped : Stripped[i] = "."
LastOf(c) == CHOOSE i \in DOMAIN Stripped : Stripped[i] = c /\ \A j \in (i + 1)..Len(Stripped) : Stripped[j] # c
DigitsAfterLastComma ==
    IF \A i \in (LastOf(",") + 1)..Len(Stripped) : Stripped[i] \in DigitChars
    THEN Len(Stripped) - LastOf(",") ELSE -1

\* the number the text stands for when decimal is the decimal separator and
\* thousands the thousands separator; null where that is no number
Reading(decimal, thousands) == parse_number(replace(remove(Stripped, {thousands}), decimal, "."))

Stated ==
    IF isna(cleaning.cell) THEN NaN
    ELSE IF HasComma /\ HasPoint
    THEN (IF LastOf(",") > LastOf(".") THEN Reading(",", ".") ELSE Reading(".", ","))
    ELSE IF HasComma
    THEN (IF DigitsAfterLastComma \in {1, 2} THEN Reading(",", ".") ELSE Reading(".", ","))
    ELSE parse_number(Stripped)

\* C18 (amount parsing): both amount cleaners read the rightmost of ',' and '.'
\* as the decimal separator when both appear, a lone ',' as decimal only when
\* one or two digits follow it and as a thousands separator otherwise, and give
\* null for text that is no number (a text with points only is left to the
\* cleaner).
C18_AmountParsing ==
    (cleaning # <<>> /\ (HasComma \/ ~HasPoint)) =>
        /\ cleaning.loader # <<>> => cleaning.loader[1] = Stated
        /\ cleaning.processor # <<>> => cleaning.processor[1] = Stated

\* C19 (no null critical fields): every row of the table a load produces has a
\* date and an amount that are not null; a row whose date or amount does not
\* parse is left out.
C19_NoNullCriticalFields ==
    Loaded(Last) =>
        \A i \in DOMAIN Last.result.rows :
            ~isna(Last.result.rows[i].Date) /\ ~isna(Last.result.rows[i].Amount)

----------------------------------------------------------------------------
(* src/data_loader.py: TransactionDataLoader.load_all_transactions. A frame is
   its column names, in order, and its rows, records over those names. *)

DataFrame(columns, rows) == [columns |-> columns, rows |-> rows]
EmptyFrame == DataFrame(<<>>, <<>>)
has_column(df, name) == \E k \in DOMAIN df.columns : df.columns[k] = name

\* lines 29-41: the alias lists of date, amount and description
column_mappings ==
    [date |-> <<"date", "datum", "transaction_date", "booking_date", "valutadatum", "boekdatum",
                "rentedatum">>,
     amount |-> <<"amount", "bedrag", "transaction_amount", "value", "af_bij", "credit_debit",
                  "mutatie">>,
     description |-> <<"description", "omschrijving", "details", "memo", "tegenrekening", "naam",
                       "mededelingen", "usage">>]

\* `x in list`
in_list(x, list) == \E a \in DOMAIN list : list[a] = x

StandardNames == <<"date", "amount", "description">>

\* col.lower().strip() on the column names of the model's files
lower_strip(col) ==
    CASE col = "Datum" -> "datum"
      [] col = "Datum " -> "datum"
      [] col = "Boekdatum" -> "boekdatum"
      [] col = "Bedrag" -> "bedrag"
      [] col = "Omschrijving" -> "omschrijving"
      [] col = "Omschrijving-1" -> "omschrijving-1"
      [] OTHER -> col

\* lines 182-186: the first column a standard name's list recognises
matches(columns, standard_name) ==
    {k \in DOMAIN columns : in_list(lower_strip(columns[k]), column_mappings[standard_name])}

renamed(columns, col) ==
    IF \E n \in DOMAIN StandardNames :
          /\ matches(columns, StandardNames[n]) # {}
          /\ columns[CHOOSE k \in matches(columns, StandardNames[n]) :
                        \A l \in matches(columns, StandardNames[n]) : k <= l] = col
    THEN StandardNames[CHOOSE n \in DOMAIN StandardNames :
          /\ matches(columns, StandardNames[n]) # {}
          /\ columns[CHOOSE k \in matches(columns, StandardNames[n]) :
                        \A l \in matches(columns, StandardNames[n]) : k <= l] = col]
    ELSE col

\* lines 188-189: the header after df.rename(columns=column_rename_map)
rename_columns(columns) == [k \in DOMAIN columns |-> renamed(columns, columns[k])]

\* lines 175-195
standardize_columns(df) ==
    DataFrame(rename_columns(df.columns),
              [i \in DOMAIN df.rows |->
                  [name \in {renamed(df.columns, df.columns[k]) : k \in DOMAIN df.columns} |->
                      df.rows[i][CHOOSE c \in DOMAIN df.rows[i] : renamed(df.columns, c) = name]]])

\* df[name] = the function applied to each cell of the column
with_column(df, name, f(_)) ==
    DataFrame(IF has_column(df, name) THEN df.columns ELSE Append(df.columns, name),
              [i \in DOMAIN df.rows |-> set_col(df.rows[i], name, f(df.rows[i]))])

\* df.dropna(subset=[name])
dropna(df, name) == DataFrame(df.columns, SelectSeq(df.rows, LAMBDA row : ~isna(row[name])))

\* lines 197-228 on one cell
clean_date(row) == to_datetime(row.date)

clean_amount_of(row) == clean_amount_column(row.amount)

\* lines 279-294 on one cell: str(), strip, lower, runs of whitespace collapsed
clean_description(row) == Str(collapse(lower(strip(str(row.description)))))

\* lines 142-156
cleaned(df) ==
    LET dated == IF has_column(df, "date") THEN dropna(with_column(df, "date", clean_date), "date")
                 ELSE df
        valued == IF has_column(dated, "amount")
                  THEN dropna(with_column(dated, "amount", clean_amount_of), "amount")
                  ELSE dated
    IN  IF has_column(valued, "description")
        THEN with_column(valued, "description", clean_description) ELSE valued

is_income(row) == ~row.amount.negative /\ (row.amount.whole \o row.amount.fraction) # <<>>
is_expense(row) == row.amount.negative
description_length(row) == Int_(Len(row.description.v))

\* lines 296-321, without the calendar features of the date
add_derived_features(df) ==
    LET amounts == IF has_column(df, "amount")
                   THEN with_column(with_column(df, "is_income", is_income), "is_expense", is_expense)
                   ELSE df
    IN  IF has_column(amounts, "description")
        THEN with_column(amounts, "description_length", description_length) ELSE amounts

\* line 163: drop_duplicates(subset=['date', 'amount', 'description'], keep='first')
same_transaction(a, b) ==
    a.date = b.date /\ a.amount = b.amount /\ a.description = b.description

drop_duplicates(df) ==
    LET first(i) == \A j \in 1..(i - 1) : ~same_transaction(df.rows[j], df.rows[i])
        kept == {i \in DOMAIN df.rows : first(i)}
        rank(i) == Cardinality({j \in kept : j <= i})
    IN  DataFrame(df.columns,
                  [k \in 1..Cardinality(kept) |-> df.rows[CHOOSE i \in kept : rank(i) = k]])

\* line 171: sort_values('date'), rows of one date in their order
date_value(row) == digits_value(row.date.v)

RECURSIVE sort_values(_)
sort_values(rows) ==
    IF rows = <<>> THEN <<>>
    ELSE LET rest == sort_values(SubSeq(rows, 1, Len(rows) - 1))
             last == rows[Len(rows)]
             before == Cardinality({k \in DOMAIN rest : date_value(rest[k]) <= date_value(last)})
         IN  SubSeq(rest, 1, before) \o <<last>> \o SubSeq(rest, before + 1, Len(rest))

Raised(error) == [returned |-> "raise", error |-> error, frame |-> EmptyFrame]
Returned(df) == [returned |-> "frame", error |-> "", frame |-> df]

\* lines 158-173: the KeyError of drop_duplicates when a column of the subset
\* is missing leaves _clean_and_standardize
deduplicated_and_sorted(df) ==
    IF ~(has_column(df, "date") /\ has_column(df, "amount") /\ has_column(df, "description"))
    THEN Raised("KeyError")
    ELSE Returned(DataFrame(df.columns, sort_values(drop_duplicates(df).rows)))

\* lines 126-173
clean_and_standardize(df) ==
    IF df.rows = <<>> THEN Returned(df)
    ELSE deduplicated_and_sorted(add_derived_features(cleaned(standardize_columns(df))))

\* lines 97-124: None (here the empty frame) for a file that no encoding and
\* separator reads into more than one column and at least one row
load_single_csv(file) ==
    IF file.readable /\ Len(file.columns) > 1 /\ file.rows # <<>>
    THEN DataFrame(file.columns, file.rows) ELSE EmptyFrame

\* lines 73-82
RECURSIVE load_frames(_)
load_frames(files) ==
    IF files = <<>> THEN <<>>
    ELSE (IF load_single_csv(Head(files)).rows # <<>>
          THEN <<with_column(load_single_csv(Head(files)), "source_file",
                             LAMBDA row : Str(Head(files).name))>>
          ELSE <<>>) \o load_frames(Tail(files))

\* line 89: pd.concat(all_dataframes, ignore_index=True)
RECURSIVE union_columns(_)
union_columns(frames) ==
    IF frames = <<>> THEN <<>>
    ELSE LET rest == union_columns(SubSeq(frames, 1, Len(frames) - 1))
         IN  rest \o SelectSeq(frames[Len(frames)].columns,
                               LAMBDA c : \A k \in DOMAIN rest : rest[k] # c)

filled(row, columns) ==
    [name \in {columns[k] : k \in DOMAIN columns} |-> IF name \in DOMAIN row THEN row[name] ELSE NaN]

concat_frames(frames) ==
    DataFrame(union_columns(frames),
              [i \in DOMAIN concat([k \in DOMAIN frames |-> frames[k].rows]) |->
                  filled(concat([k \in DOMAIN frames |-> frames[k].rows])[i], union_columns(frames))])

\* lines 55-95
standard_load_all_transactions(files) ==
    IF load_frames(files) = <<>> THEN Returned(EmptyFrame)
    ELSE clean_and_standardize(concat_frames(load_frames(files)))

----------------------------------------------------------------------------
(* SpecStandard: CSV files are put into the transactions directory and
   TransactionDataLoader loads it *)

Csv(name, readable, columns, cells) ==
    [name |-> name, readable |-> readable, columns |-> columns,
     rows |-> [i \in DOMAIN cells |->
                  [c \in {columns[k] : k \in DOMAIN columns} |->
                      cells[i][CHOOSE k \in DOMAIN columns : columns[k] = c]]]]

Recognised == <<"Datum", "Bedrag", "Omschrijving">>
Numbered == <<"Datum", "Bedrag", "Omschrijving-1">>

Day1 == Str(<<"1">>)
Day2 == Str(<<"2">>)
Twelve == Str(<<"1", "2">>)
Comma == Str(<<"-", "1", ",", "5">>)
Unusable == Str(<<"x">>)
AH == Str(<<"A", "H">>)

CsvFiles ==
    {Csv(<<"a">>, TRUE, Recognised, <<<<Day2, Twelve, AH>>>>),
     Csv(<<"b">>, TRUE, Recognised, <<<<Day2, Twelve, AH>>, <<Unusable, Twelve, AH>>>>),
     Csv(<<"c">>, TRUE, Recognised, <<<<Day1, Unusable, AH>>, <<Day1, Comma, NaN>>>>),
     Csv(<<"d">>, TRUE, Numbered, <<<<Day1, Twelve, AH>>>>),
     Csv(<<"e">>, TRUE, <<"Bedrag", "Omschrijving">>, <<<<Twelve, AH>>>>),
     Csv(<<"f">>, TRUE, <<"Datum", "Omschrijving">>, <<<<Day1, AH>>>>),
     Csv(<<"g">>, FALSE, <<>>, <<>>),
     Csv(<<"h">>, TRUE, <<"Datum">>, <<<<Day1>>>>)}

StandardInit ==
    /\ directory \in {<<>>} \cup {<<f>> : f \in CsvFiles}
    /\ standardized = [files |-> <<>>, result |-> [returned |-> "never"]]
    /\ PagesIdle /\ evaluation = <<>> /\ loads = <<>> /\ cleaning = <<>> /\ FlowsIdle

\* a CSV file is put into the directory; glob lists it anywhere among the others
AddCsv ==
    /\ Len(directory) < MaxFiles
    /\ \E f \in CsvFiles, i \in 1..(Len(directory) + 1) :
          /\ \A j \in DOMAIN directory : directory[j].name # f.name
          /\ directory' = insert(directory, i, f)
    /\ UNCHANGED <<pages, evaluation, loads, cleaning, standardized, flows>>

\* TransactionDataLoader.load_all_transactions()
StandardLoadAll ==
    /\ standardized' = [files |-> directory, result |-> standard_load_all_transactions(directory)]
    /\ UNCHANGED <<pages, evaluation, loads, cleaning, directory, flows>>

StandardNext == AddCsv \/ StandardLoadAll

SpecStandard == StandardInit /\ [][StandardNext]_vars

\* C20 (a load never aborts): TransactionDataLoader.load_all_transactions
\* returns a table, whatever files and columns the directory holds.
C20_NeverAborts ==
    standardized.result.returned # "raise"

----------------------------------------------------------------------------
(* src/data_processor.py: BankDataProcessor._standardize_columns, and
   SpecColumns: one header standardized by both standardizers *)

\* src/data_processor.py lines 112-119: the alias lists of date, amount and description
processor_column_mappings ==
    [date |-> <<"date", "datum", "transaction_date", "booking_date">>,
     amount |-> <<"amount", "bedrag", "transaction_amount", "value">>,
     description |-> <<"description", "omschrijving", "details", "memo">>]

\* col.lower() on the column names of the model's headers
lower_name(col) ==
    CASE col = "Datum" -> "datum"
      [] col = "Datum " -> "datum "
      [] col = "Boekdatum" -> "boekdatum"
      [] col = "Bedrag" -> "bedrag"
      [] col = "Omschrijving" -> "omschrijving"
      [] col = "Omschrijving-1" -> "omschrijving-1"
      [] OTHER -> col

\* src/data_processor.py lines 126-130 for one standard name: the first column
\* of the header that the list recognises is renamed, wherever it occurs
processor_rename(columns, standard_name) ==
    LET found == {k \in DOMAIN columns :
                     in_list(lower_name(columns[k]), processor_column_mappings[standard_name])}
    IN  IF found = {} THEN columns
        ELSE [j \in DOMAIN columns |->
                 IF columns[j] = columns[CHOOSE k \in found : \A l \in found : k <= l]
                 THEN standard_name ELSE columns[j]]

\* src/data_processor.py lines 99-132: the header after the loop over the standard names
RECURSIVE processor_rename_columns(_, _)
processor_rename_columns(columns, names) ==
    IF names = <<>> THEN columns
    ELSE processor_rename_columns(processor_rename(columns, Head(names)), Tail(names))

MaxColumns == 3     \* columns of a header

Headers == {"Datum", "date", "Boekdatum", "Datum ", "Bedrag", "Omschrijving", "Omschrijving-1"}

\* the headers of up to n distinct columns
RECURSIVE HeadersOf(_)
HeadersOf(n) ==
    IF n = 0 THEN {<<>>}
    ELSE HeadersOf(n - 1)
         \cup {Append(h, c) : h \in {g \in HeadersOf(n - 1) : Len(g) = n - 1}, c \in Headers}

ColumnsInit ==
    /\ standardization \in [columns : {h \in HeadersOf(MaxColumns) :
                                          \A i, j \in DOMAIN h : i # j => h[i] # h[j]},
                            loader : {<<>>}, processor : {<<>>}]
    /\ PagesIdle /\ evaluation = <<>> /\ directory = <<>> /\ loads = <<>>
    /\ cleaning = <<>> /\ standardized = <<>> /\ ManagementIdle /\ InterfacesIdle

ColumnsFrame ==
    UNCHANGED <<pages, evaluation, directory, loads, cleaning, standardized, management,
                interfaces>>

\* TransactionDataLoader._standardize_columns
LoaderStandardize ==
    /\ standardization.loader = <<>>
    /\ standardization' =
          [standardization EXCEPT !.loader = <<rename_columns(standardization.columns)>>]
    /\ ColumnsFrame

\* BankDataProcessor._standardize_columns
ProcessorStandardize ==
    /\ standardization.processor = <<>>
    /\ standardization' =
          [standardization EXCEPT
              !.processor = <<processor_rename_columns(standardization.columns, StandardNames)>>]
    /\ ColumnsFrame

ColumnsNext == LoaderStandardize \/ ProcessorStandardize

SpecColumns == ColumnsInit /\ [][ColumnsNext]_vars

\* the place of a header's trimmed, lower-cased text in an alias list, 0 when absent
Trimmed(col) == lower_strip(col)
AliasIndex(col, aliases) ==
    IF in_list(Trimmed(col), aliases)
    THEN CHOOSE a \in DOMAIN aliases : aliases[a] = Trimmed(col) ELSE 0

\* a header standardized as stated: per canonical field one column, one that
\* matches the earliest alias matched at all, carries the field's name, and
\* every other column its own
AsStated(columns, header, mappings) ==
    /\ DOMAIN header = DOMAIN columns
    /\ \A n \in DOMAIN StandardNames :
          LET field == StandardNames[n]
              matching == {k \in DOMAIN columns : AliasIndex(columns[k], mappings[field]) > 0}
              renamed_to == {k \in DOMAIN columns : header[k] = field /\ columns[k] # field}
              chosen == {k \in matching : header[k] = field}
          IN  /\ renamed_to \subseteq matching
              /\ Cardinality(renamed_to) <= 1
              /\ matching # {} =>
                    /\ Cardinality(chosen) = 1
                    /\ \A k \in chosen : \A l \in matching :
                          AliasIndex(columns[k], mappings[field])
                             <= AliasIndex(columns[l], mappings[field])
    /\ \A k \in DOMAIN columns :
          header[k] # columns[k] => \E n \in DOMAIN StandardNames : header[k] = StandardNames[n]

\* C21 (column mapping): both standardizers rename, for each canonical field,
\* the column matching the earliest alias of the field's list (by its trimmed,
\* lower-cased header), at most one column per field, and keep every other
\* column under its name.
C21_ColumnMapping ==
    standardization # <<>> =>
        /\ standardization.loader # <<>> =>
              AsStated(standardization.columns, standardization.loader[1], column_mappings)
        /\ standardization.processor # <<>> =>
              AsStated(standardization.columns, standardization.processor[1],
                       processor_column_mappings)

-----------------------------------------------------------------------------
(* pages/rule_management.py: the Add Rule tab, used by several browser sessions *)

\* what the specifications of the management pages leave alone
computations ==
    <<pages, evaluation, directory, loads, cleaning, standardized, standardization>>
ComputationsIdle ==
    /\ PagesIdle /\ evaluation = <<>> /\ directory = <<>> /\ loads = <<>>
    /\ cleaning = <<>> /\ standardized = <<>> /\ standardization = <<>>
elsewhere == <<computations, interfaces>>
ElsewhereIdle == ComputationsIdle /\ InterfacesIdle

MaxCreated == 2     \* rules the Add Rule tab may add to the document

Browsers == {"s1", "s2"}
NoDict == [k \in {} |-> {}]

\* the categories documents of the model: name -> {active, subcategories: name -> {active}}
Subcategory(active) == [active |-> active]
CategoryOf(active, subcategories) == [active |-> active, subcategories |-> subcategories]
OneSubcategory(active) == [k \in {"Groceries"} |-> Subcategory(active)]
CategoriesDocuments ==
    { NoDict,
      [k \in {"Food"} |-> CategoryOf(TRUE, NoDict)],
      [k \in {"Food"} |-> CategoryOf(TRUE, OneSubcategory(TRUE))],
      [k \in {"Food"} |-> CategoryOf(TRUE, OneSubcategory(FALSE))],
      [k \in {"Food"} |-> CategoryOf(FALSE, OneSubcategory(TRUE))] }

\* the script of a session that is not running
NotRunning == [running |-> FALSE]
\* what the last form submission of a session displayed
Nothing == [message |-> "none"]

\* rule_management.load_rules: the list under categorization_rules.rules; a missing
\* file reads as the empty document
NoRulesFile == [exists |-> FALSE, rules |-> <<>>]
RulesFile(rules) == [exists |-> TRUE, rules |-> rules]
load_rules(file) == IF file.exists THEN file.rules ELSE <<>>

\* category_management.load_categories, called at line 765
load_categories(file) == file

\* lines 844-858: the rule built from the form
new_rule(rule_name, uuid4, selected_category, selected_subcategory, is_active) ==
    [id |-> <<lower(rule_name), uuid4>>, name |-> rule_name,
     category |-> selected_category, subcategory |-> selected_subcategory,
     active |-> is_active]

\* lines 861-862: the document that is saved is the one this run loaded plus the rule
appended_to_file(rules, rule) == Append(load_rules(rules_document), rule)
appended(rules, rule) == Append(rules, rule)

\* save_rules, lines 25-34: the whole document is written; False when writing raises
save_rules(file, rules_data, writable) == IF writable THEN RulesFile(rules_data) ELSE file

CreationInit ==
    /\ categories_document \in CategoriesDocuments
    /\ rules_document = NoRulesFile
    /\ sessions = [s \in Browsers |-> [script |-> NotRunning, shown |-> Nothing]]
    /\ ElsewhereIdle

\* a script run of the page begins: lines 179-180 and 765-767
Run(s) ==
    /\ ~sessions[s].script.running
    /\ sessions' = [sessions EXCEPT ![s].script =
            [running |-> TRUE,
             rules |-> load_rules(rules_document),
             categories |-> load_categories(categories_document)]]
    /\ UNCHANGED <<categories_document, rules_document, elsewhere>>

\* lines 769-791: what the two select boxes can hold
category_choices(categories) ==
    IF DOMAIN categories = {} THEN {"None"} ELSE DOMAIN categories
subcategory_choices(categories, selected_category) ==
    IF selected_category \in DOMAIN categories
       /\ DOMAIN categories[selected_category].subcategories # {}
    THEN DOMAIN categories[selected_category].subcategories
    ELSE {"None"}

\* lines 822-871: the form is submitted in the running script
CreateRule(s) ==
    /\ sessions[s].script.running
    /\ \E rule_name \in {<<>>, <<"A">>}, uuid4 \in {"u1", "u2"},
          has_conditions \in BOOLEAN, is_active \in BOOLEAN, writable \in BOOLEAN :
       \E selected_category \in category_choices(sessions[s].script.categories) :
       \E selected_subcategory \in
              subcategory_choices(sessions[s].script.categories, selected_category) :
       LET rule == new_rule(rule_name, uuid4, selected_category, selected_subcategory,
                            is_active)
           rules == appended(sessions[s].script.rules, rule)
       IN  /\ Len(sessions[s].script.rules) < MaxCreated
           /\ IF rule_name = <<>> \/ selected_category = "None"
                 \/ selected_subcategory = "None" \/ ~has_conditions
              THEN /\ rules_document' = rules_document
                   /\ sessions' = [sessions EXCEPT ![s] =
                         [script |-> NotRunning, shown |-> [message |-> "error"]]]
              ELSE /\ rules_document' = save_rules(rules_document, rules, writable)
                   /\ sessions' = [sessions EXCEPT ![s] =
                         [script |-> NotRunning,
                          shown |-> [message |-> IF writable THEN "success" ELSE "failed",
                                     rule |-> rule]]]
    /\ UNCHANGED <<categories_document, elsewhere>>

CreationNext == \E s \in Browsers : Run(s) \/ CreateRule(s)
SpecCreation == CreationInit /\ [][CreationNext]_vars

\* the rules document as a set of rules
RulesIn(file) == {load_rules(file)[i] : i \in DOMAIN load_rules(file)}

\* the category and the subcategory exist in the categories document and are active
ActiveTarget(rule, categories) ==
    /\ rule.category \in DOMAIN categories
    /\ categories[rule.category].active
    /\ rule.subcategory \in DOMAIN categories[rule.category].subcategories
    /\ categories[rule.category].subcategories[rule.subcategory].active

\* C22: a rule enters the rules document only if, at that moment, its category exists
\* in the categories document, its subcategory exists under that category and both
\* are active.
C22_ValidatedTarget ==
    [][\A rule \in RulesIn(rules_document') \ RulesIn(rules_document) :
          ActiveTarget(rule, categories_document)]_vars

\* C24: saving is a read-modify-write of the whole document without a lock: a save
\* that reports success replaces the document by what the saving session loaded
\* plus its new rule, whatever the document holds by then, so the rule another
\* session saved in between is lost.
C24_ReadModifyWrite ==
    [][\A s \in Browsers :
          /\ sessions[s].script.running /\ ~sessions'[s].script.running
          /\ sessions'[s].shown.message = "success"
          => rules_document' =
                 RulesFile(Append(sessions[s].script.rules, sessions'[s].shown.rule))]_vars

\* both sessions loaded, each saved a different new rule and was told it succeeded,
\* and the document holds only one of the two rules
C24_LostUpdate ==
    /\ \A s \in Browsers : sessions[s].shown.message = "success"
    /\ sessions["s1"].shown.rule # sessions["s2"].shown.rule
    /\ Cardinality({s \in Browsers : sessions[s].shown.rule \in RulesIn(rules_document)}) = 1

-----------------------------------------------------------------------------
(* pages/backup_restore.py: restoring from an uploaded backup *)

MaxClicks == 3      \* clicks the history of a session keeps

\* the members of a backup archive; NoMember for a file the archive does not hold
NoMember == [member |-> FALSE]
Member(content) == [member |-> TRUE, content |-> content]
SavedRule == [id |-> <<"a", "u1">>, name |-> <<"A">>, category |-> "Food",
              subcategory |-> "Groceries", active |-> TRUE]
RulesContents == {RulesFile(<<>>), RulesFile(<<SavedRule>>)}
CategoriesContents == {NoDict, [k \in {"Food"} |-> CategoryOf(TRUE, OneSubcategory(TRUE))]}
Archives ==
    [manifest : BOOLEAN,
     rules : {NoMember} \cup {Member(c) : c \in RulesContents},
     categories : {NoMember} \cup {Member(c) : c \in CategoriesContents}]
NoUpload == [uploaded |-> FALSE]

Browser == "s1"
RestoreButton == "Restore from Backup"
ConfirmButton == "Confirm Restore"

RestoreInit ==
    /\ categories_document \in CategoriesContents
    /\ rules_document \in {NoRulesFile} \cup RulesContents
    /\ sessions = [s \in {Browser} |->
            [uploaded_backup |-> NoUpload, confirm_restore |-> FALSE,
             buttons |-> {}, clicks |-> <<>>]]
    /\ ElsewhereIdle

\* the last MaxClicks clicks of the session
clicked(clicks, button) ==
    LET all == Append(clicks, button)
    IN  IF Len(all) > MaxClicks THEN Tail(all) ELSE all

\* lines 132, 157: the restore button is drawn when the archive holds a manifest
drawn(archive) == IF archive.manifest THEN {RestoreButton} ELSE {}

\* lines 163-174: the members of the archive overwrite the live documents
restored(file, member) == IF member.member THEN member.content ELSE file

\* a backup file is put in the uploader and the script runs (lines 117-157)
Upload ==
    /\ \E archive \in Archives :
          sessions' = [sessions EXCEPT
              ![Browser].uploaded_backup = [uploaded |-> TRUE, archive |-> archive],
              ![Browser].buttons = drawn(archive),
              ![Browser].clicks = <<>>]
    /\ UNCHANGED <<categories_document, rules_document, elsewhere>>

\* the script run after a click on 'Restore from Backup' (lines 157-186)
ClickRestore ==
    LET state == sessions[Browser]
    IN  /\ RestoreButton \in state.buttons
        /\ IF state.confirm_restore
           THEN /\ rules_document' =
                       restored(rules_document, state.uploaded_backup.archive.rules)
                /\ categories_document' =
                       restored(categories_document,
                                state.uploaded_backup.archive.categories)
                /\ sessions' = [sessions EXCEPT
                       ![Browser].confirm_restore = FALSE,
                       ![Browser].buttons = {RestoreButton},
                       ![Browser].clicks = clicked(state.clicks, RestoreButton)]
           ELSE /\ sessions' = [sessions EXCEPT
                       ![Browser].buttons = {RestoreButton, ConfirmButton},
                       ![Browser].clicks = clicked(state.clicks, RestoreButton)]
                /\ UNCHANGED <<categories_document, rules_document>>
        /\ UNCHANGED elsewhere

\* the script run after a click on 'Confirm Restore': st.button of line 157 returns
\* False in this run, so lines 158-186 are not executed and line 185 is not reached
ClickConfirm ==
    LET state == sessions[Browser]
    IN  /\ ConfirmButton \in state.buttons
        /\ sessions' = [sessions EXCEPT
               ![Browser].buttons = drawn(state.uploaded_backup.archive),
               ![Browser].clicks = clicked(state.clicks, ConfirmButton)]
        /\ UNCHANGED <<categories_document, rules_document, elsewhere>>

RestoreNext == Upload \/ ClickRestore \/ ClickConfirm
SpecRestore == RestoreInit /\ [][RestoreNext]_vars

\* the clicks since the upload end with Restore, Confirm, Restore
RestoreConfirmed ==
    LET clicks == sessions[Browser].clicks
        n == Len(clicks)
    IN  /\ n >= 3
        /\ SubSeq(clicks, n - 2, n) = <<RestoreButton, ConfirmButton, RestoreButton>>

\* C23: after uploading a backup, clicking 'Restore from Backup', 'Confirm Restore'
\* and 'Restore from Backup' again, the live rules and categories documents equal
\* the ones in the backup.
C23_RestoreCompletes ==
    RestoreConfirmed =>
        LET archive == sessions[Browser].uploaded_backup.archive
        IN  /\ archive.rules.member => rules_document = archive.rules.content
            /\ archive.categories.member => categories_document = archive.categories.content

-----------------------------------------------------------------------------
(* pages/rule_management.py and pages/category_management.py: the Delete buttons *)

\* del d[k] on a dict
without_key(d, k) == [j \in DOMAIN d \ {k} |-> d[j]]

RuleOf(id, category) ==
    [id |-> id, name |-> <<"A">>, category |-> category, subcategory |-> "Groceries",
     active |-> TRUE]
ListedRules == <<RuleOf("a_u1", "Food"), RuleOf("b_u2", "Home")>>
TwoSubcategories == [k \in {"Groceries", "Rent"} |-> Subcategory(TRUE)]
ManagedCategories ==
    { [k \in {"Food", "Home"} |-> CategoryOf(TRUE, OneSubcategory(TRUE))],
      [k \in {"Food", "Home"} |->
          IF k = "Food" THEN CategoryOf(TRUE, TwoSubcategories)
          ELSE CategoryOf(FALSE, OneSubcategory(TRUE))] }

\* the keys of st.session_state that hold the confirmation flags
rule_confirm_key(rule_id) == "confirm_delete_" \o rule_id
category_confirm_key(selected_category) == "confirm_delete_" \o selected_category
subcat_confirm_key(subcat_name) == "confirm_delete_subcat_" \o subcat_name

\* the items of the two documents
RuleItem(rule_id) == <<"rule", rule_id>>
CategoryItem(category) == <<"category", category>>
SubcategoryItem(category, subcat_name) == <<"subcategory", category, subcat_name>>

DeletionInit ==
    /\ categories_document \in ManagedCategories
    /\ rules_document = RulesFile(ListedRules)
    /\ sessions = [s \in {Browser} |->
            [flags |-> {}, manage_category_select |-> "", deletes |-> {}]]
    /\ ElsewhereIdle

\* category_management lines 211-212: the category to manage is chosen
SelectCategory ==
    /\ \E selected_category \in {""} \cup DOMAIN categories_document :
          sessions' = [sessions EXCEPT
              ![Browser].manage_category_select = selected_category]
    /\ UNCHANGED <<categories_document, rules_document, elsewhere>>

\* save_categories, lines 18-27
save_categories(file, categories_data, writable) ==
    IF writable THEN categories_data ELSE file

\* rule_management lines 283-298: the Delete button of a listed rule
DeleteRule ==
    LET state == sessions[Browser]
        rules == load_rules(rules_document)
    IN  /\ \E i \in DOMAIN rules, writable \in BOOLEAN :
           LET rule_id == rules[i].id
               key == rule_confirm_key(rule_id)
               kept == SelectSeq(rules, LAMBDA r : r.id # rule_id)
           IN  IF key \in state.flags
               THEN /\ rules_document' = save_rules(rules_document, kept, writable)
                    /\ sessions' = [sessions EXCEPT
                          ![Browser].flags =
                              IF writable THEN state.flags \ {key} ELSE state.flags,
                          ![Browser].deletes = state.deletes \cup {RuleItem(rule_id)}]
               ELSE /\ rules_document' = rules_document
                    /\ sessions' = [sessions EXCEPT
                          ![Browser].flags = state.flags \cup {key},
                          ![Browser].deletes = state.deletes \cup {RuleItem(rule_id)}]
        /\ UNCHANGED <<categories_document, elsewhere>>

\* category_management lines 278-292: 'Delete Category' for the selected category
DeleteCategory ==
    LET state == sessions[Browser]
        selected_category == state.manage_category_select
        categories == load_categories(categories_document)
        key == category_confirm_key(selected_category)
    IN  /\ selected_category \in DOMAIN categories
        /\ \E writable \in BOOLEAN :
           IF key \in state.flags
           THEN /\ categories_document' =
                       save_categories(categories_document,
                                       without_key(categories, selected_category), writable)
                /\ sessions' = [sessions EXCEPT
                       ![Browser].flags =
                           IF writable THEN state.flags \ {key} ELSE state.flags,
                       ![Browser].manage_category_select =
                           IF writable THEN "" ELSE selected_category,
                       ![Browser].deletes =
                           state.deletes \cup {CategoryItem(selected_category)}]
           ELSE /\ categories_document' = categories_document
                /\ sessions' = [sessions EXCEPT
                       ![Browser].flags = state.flags \cup {key},
                       ![Browser].deletes =
                           state.deletes \cup {CategoryItem(selected_category)}]
        /\ UNCHANGED <<rules_document, elsewhere>>

\* category_management lines 351-363: 'Delete' in the form of a subcategory of the
\* selected category
DeleteSubcategory ==
    LET state == sessions[Browser]
        selected_category == state.manage_category_select
        categories == load_categories(categories_document)
    IN  /\ selected_category \in DOMAIN categories
        /\ \E subcat_name \in DOMAIN categories[selected_category].subcategories,
              writable \in BOOLEAN :
           LET confirm_key == subcat_confirm_key(subcat_name)
               item == SubcategoryItem(selected_category, subcat_name)
               after == [categories EXCEPT ![selected_category].subcategories =
                            without_key(@, subcat_name)]
           IN  IF confirm_key \in state.flags
               THEN /\ categories_document' =
                           save_categories(categories_document, after, writable)
                    /\ sessions' = [sessions EXCEPT
                           ![Browser].flags =
                               IF writable THEN state.flags \ {confirm_key}
                               ELSE state.flags,
                           ![Browser].deletes = state.deletes \cup {item}]
               ELSE /\ categories_document' = categories_document
                    /\ sessions' = [sessions EXCEPT
                           ![Browser].flags = state.flags \cup {confirm_key},
                           ![Browser].deletes = state.deletes \cup {item}]
        /\ UNCHANGED <<rules_document, elsewhere>>

DeletionNext == SelectCategory \/ DeleteRule \/ DeleteCategory \/ DeleteSubcategory
SpecDeletion == DeletionInit /\ [][DeletionNext]_vars

\* the items a pair of documents holds
ItemsOf(file, categories) ==
    {RuleItem(r.id) : r \in RulesIn(file)}
    \cup {CategoryItem(c) : c \in DOMAIN categories}
    \cup UNION {{SubcategoryItem(c, s) : s \in DOMAIN categories[c].subcategories} :
                  c \in DOMAIN categories}

\* the items a step removes, a subcategory that goes with its category not counted
Removed ==
    {item \in ItemsOf(rules_document, categories_document)
              \ ItemsOf(rules_document', categories_document') :
        item[1] = "subcategory" => item[2] \in DOMAIN categories_document'}

\* C28: an item is removed only by a Delete click that follows an earlier Delete
\* click on that same item; the first Delete click on an item never removes it.
C28_TwoStepDeletion ==
    [][\A item \in Removed : item \in sessions[Browser].deletes]_vars

-----------------------------------------------------------------------------
(* the preview of pages/rule_management.py against the engine of pages/data_loader.py *)

\* C27: for every transaction and every condition, the preview's evaluator returns
\* the same boolean as the engine's evaluator.
C27_PreviewAgrees ==
    (evaluation # <<>> /\ evaluation.kind = "condition"
     /\ evaluation.engine # Pending /\ evaluation.preview # Pending)
    => evaluation.engine = evaluation.preview

-----------------------------------------------------------------------------
(* src/manual_matcher.py: the pages of _label_new_transactions *)

MaxRows == 3            \* transactions in the loaded frame
MaxPageSize == 2        \* the largest value of "Transactions per page" that is entered
AssumedPageSize == 10   \* the page size _save_current_labels assumes

Unknown == "unknown"
LabelOptions == {Unknown, "food_groceries"}

\* the index of the loaded frame, which is also the transaction_id (lines 131-132)
Index(n) == 0..(n - 1)

\* lines 125-135: the rows whose transaction_id is not in the training data
RECURSIVE unlabeled_from(_, _, _)
unlabeled_from(i, n, already_labeled) ==
    IF i >= n THEN <<>>
    ELSE (IF i \in already_labeled THEN <<>> ELSE <<i>>)
         \o unlabeled_from(i + 1, n, already_labeled)
unlabeled_df(l) == unlabeled_from(0, l.transactions, l.training)

\* line 147
total_pages(count, items_per_page) == (count - 1) \div items_per_page + 1

\* unlabeled_df.iloc[start_idx:end_idx]
iloc(df, start_idx, end_idx) ==
    SubSeq(df, start_idx + 1, IF end_idx < Len(df) THEN end_idx ELSE Len(df))

ids(df) == {df[i] : i \in DOMAIN df}

\* lines 173-204: every row of the page puts the value of its select box in labels
shown(labels, page_df) ==
    [idx \in DOMAIN labels \cup ids(page_df) |-> get(labels, idx, Unknown)]

\* lines 118-212 of a script run: the frame is filtered, the page buttons are
\* handled, the page is drawn and the progress ratio is computed; the run raises
\* ZeroDivisionError at line 211 when the page is empty
drawn_page(l, previous, next) ==
    LET unlabeled == unlabeled_df(l)
        pages_now == total_pages(Len(unlabeled), l.items_per_page)
        after_previous == IF previous /\ l.current_page > 0
                          THEN l.current_page - 1 ELSE l.current_page
        current_page == IF next /\ after_previous < pages_now - 1
                        THEN after_previous + 1 ELSE after_previous
        start_idx == current_page * l.items_per_page
        page_df == iloc(unlabeled, start_idx, start_idx + l.items_per_page)
    IN  IF unlabeled = <<>>
        THEN [l EXCEPT !.page_df = <<>>, !.raised = FALSE]
        ELSE [l EXCEPT !.current_page = current_page,
                       !.page_df = page_df,
                       !.labels = shown(l.labels, page_df),
                       !.raised = (page_df = <<>>)]

\* _save_current_labels, lines 221-267, on the page that was drawn
save_current_labels(l, writable) ==
    LET df == unlabeled_df(l)
        labeled_data == {idx \in DOMAIN l.labels : l.labels[idx] # Unknown}
    IN  IF labeled_data = {} \/ ~(labeled_data \subseteq ids(df)) \/ ~writable
        THEN l
        ELSE LET saved_labels == [l EXCEPT !.training = l.training \cup labeled_data,
                                           !.labels = NoDict]
             IN  IF l.current_page < total_pages(Len(df), AssumedPageSize) - 1
                 THEN drawn_page([saved_labels EXCEPT !.current_page = l.current_page + 1],
                                 FALSE, FALSE)
                 ELSE saved_labels

\* lines 215-219: the Save Labels button, reached when the page could be drawn
script(l, previous, next, save, writable) ==
    LET page == drawn_page(l, previous, next)
    IN  IF save /\ ~page.raised /\ page.page_df # <<>> /\ DOMAIN page.labels # {}
        THEN save_current_labels(page, writable)
        ELSE page

LabelingFrame == UNCHANGED <<computations, management, matcher, store_call>>

\* "Load Transaction Data" was clicked and the first page is drawn
LabelingInit ==
    /\ \E n \in 1..MaxRows, size \in 1..MaxPageSize :
          labeling = drawn_page([transactions |-> n, training |-> {}, current_page |-> 0,
                                 items_per_page |-> size, labels |-> NoDict,
                                 page_df |-> <<>>, raised |-> FALSE], FALSE, FALSE)
    /\ ComputationsIdle /\ ManagementIdle /\ matcher = <<>> /\ store_call = <<>>

PreviousPage == labeling' = script(labeling, TRUE, FALSE, FALSE, TRUE) /\ LabelingFrame
NextPage == labeling' = script(labeling, FALSE, TRUE, FALSE, TRUE) /\ LabelingFrame

\* "Transactions per page" is changed
SetPageSize ==
    /\ \E size \in 1..MaxPageSize :
          /\ size # labeling.items_per_page
          /\ labeling' = script([labeling EXCEPT !.items_per_page = size],
                                FALSE, FALSE, FALSE, TRUE)
    /\ LabelingFrame

\* line 204 in the run after a choice in the select box of a row: the choice is
\* stored when the row is on the page this run draws
selected(page, idx, selected_category) ==
    IF idx \in ids(page.page_df)
    THEN [page EXCEPT !.labels[idx] = selected_category]
    ELSE page

\* a category is chosen in the select box of a row of the displayed page
SelectLabel ==
    /\ \E idx \in ids(labeling.page_df), selected_category \in LabelOptions :
          /\ get(labeling.labels, idx, Unknown) # selected_category
          /\ labeling' = selected(script(labeling, FALSE, FALSE, FALSE, TRUE),
                                  idx, selected_category)
    /\ LabelingFrame

\* "Save Labels" is clicked; the button exists when the last run drew a page
SaveLabels ==
    /\ labeling.page_df # <<>>
    /\ \E writable \in BOOLEAN :
          labeling' = script(labeling, FALSE, FALSE, TRUE, writable)
    /\ LabelingFrame

LabelingNext == PreviousPage \/ NextPage \/ SetPageSize \/ SelectLabel \/ SaveLabels
SpecLabeling == LabelingInit /\ [][LabelingNext]_vars

\* C29: whenever unlabeled transactions remain, the current page index lies in
\* [0, total_pages - 1] and the page that is displayed holds at least one
\* transaction.
C29_PageInRange ==
    (labeling # <<>> /\ unlabeled_df(labeling) # <<>>) =>
        /\ labeling.current_page >= 0
        /\ labeling.current_page
              <= total_pages(Len(unlabeled_df(labeling)), labeling.items_per_page) - 1
        /\ labeling.page_df # <<>>
        /\ ~labeling.raised

-----------------------------------------------------------------------------
(* pages/transaction_matcher.py: one call of save_categorized_transaction *)

\* the row to_csv writes for a saved label
TextRow(id, label) ==
    [Transaction_ID |-> id, Category |-> label.category,
     Subcategory |-> label.subcategory, Source |-> Manual]

\* the contents of data/categorized_transactions.csv before the call: at most one
\* row per Transaction_ID
StoredRows ==
    {<<>>} \cup {<<TextRow(id, label)>> : id \in Ids, label \in Labels}
    \cup {<<TextRow(pair[1], la), TextRow(pair[2], lb)>> :
              pair \in {q \in Ids \X Ids : q[1] # q[2]}, la \in Labels, lb \in Labels}

\* a file with these rows that pd.read_csv cannot parse, e.g. after a line with
\* too many fields was appended to it
Unparsed(rows) == [exists |-> TRUE, readable |-> FALSE, rows |-> rows]

StoreFiles ==
    {NoFile} \cup {CsvFile(rows) : rows \in StoredRows}
    \cup {Unparsed(rows) : rows \in StoredRows \ {<<>>}}

NotReturned == [returned |-> FALSE]

SaveInit ==
    /\ store_call \in [file : StoreFiles, transaction_id : Ids, label : Labels,
                       outcome : {NotReturned}]
    /\ ComputationsIdle /\ ManagementIdle /\ labeling = <<>> /\ matcher = <<>>

\* save_categorized_transaction(transaction_id, category, subcategory), lines 20-56
SaveCall ==
    /\ ~store_call.outcome.returned
    /\ \E writable \in BOOLEAN :
          LET outcome == save_categorized_transaction(
                             store_call.file, store_call.transaction_id,
                             store_call.label.category, store_call.label.subcategory,
                             Manual, writable)
          IN  store_call' = [store_call EXCEPT !.outcome =
                  [returned |-> TRUE, file |-> outcome.file, result |-> outcome.result]]
    /\ UNCHANGED <<computations, management, labeling, matcher>>

SaveNext == SaveCall
SpecSave == SaveInit /\ [][SaveNext]_vars

\* the rows a file holds for the Transaction_IDs other than id, as read_csv reads
\* their cells
OtherRows(file, id) ==
    {[Transaction_ID |-> read_cell(file.rows[i].Transaction_ID),
      Category |-> read_cell(file.rows[i].Category),
      Subcategory |-> read_cell(file.rows[i].Subcategory)] :
        i \in {j \in DOMAIN file.rows : file.rows[j].Transaction_ID # id}}

\* C30: a call of save_categorized_transaction for id T leaves every row stored
\* for another Transaction_ID in the store, with the same category and
\* subcategory, whether or not the existing store could be read.
C30_OtherRowsKept ==
    (store_call # <<>> /\ store_call.outcome.returned) =>
        OtherRows(store_call.file, store_call.transaction_id)
            \subseteq OtherRows(store_call.outcome.file, store_call.transaction_id)

-----------------------------------------------------------------------------
(* pages/transaction_matcher.py: show_transaction_matcher, the categorization
   interface; the amount filter stays on "All amounts" *)

MaxShown == 3       \* transactions the matcher has loaded

ShownIds == <<"T1", "T2", "T3", "T4">>
ShowModes == {"Uncategorized only", "All transactions", "Categorized only"}
FormCategories == {"Food", "Home"}
NoTransaction == "none"
NoClick == [button |-> "none"]

\* the store as the page uses it: whether the file exists and, per Transaction_ID
\* with a row, its manual category
NoStore == [exists |-> FALSE, rows |-> NoDict]
StoreOf(rows) == [exists |-> TRUE, rows |-> rows]

\* line 177 on the merge of lines 130-174: the ids with a manual row and the ids
\* the cached rule results give a category
categorized_ids(m) == DOMAIN m.store.rows \cup m.rule_categorized

\* lines 432, 447-452: the filtered list, in the order of all_transactions
filtered_transactions(m) ==
    SelectSeq(m.all_transactions,
              LAMBDA id : CASE m.show_mode = "Uncategorized only" -> id \notin categorized_ids(m)
                            [] m.show_mode = "Categorized only" -> id \in categorized_ids(m)
                            [] OTHER -> TRUE)

\* lines 464-478 of a run of the page: the index is reset when it is out of
\* bounds and the transaction at the index is displayed
displayed(m) ==
    LET filtered == filtered_transactions(m)
        current_index == IF m.current_transaction_index >= Len(filtered)
                         THEN 0 ELSE m.current_transaction_index
    IN  IF filtered = <<>>
        THEN [m EXCEPT !.transaction_id = NoTransaction]
        ELSE [m EXCEPT !.current_transaction_index = current_index,
                       !.transaction_id = filtered[current_index + 1]]

\* lines 505-509, 539: the form is shown for a transaction without a row in
\* categorized_df, the current categorization for one with a row
current_categorization(m) == m.transaction_id \in categorized_ids(m)

total_transactions(m) == Len(filtered_transactions(m))

\* st.session_state.current_transaction_index += 1 unless at the end of the list
advanced(m) ==
    IF m.current_transaction_index < total_transactions(m) - 1
    THEN [m EXCEPT !.current_transaction_index = m.current_transaction_index + 1]
    ELSE m

MatcherFrame == UNCHANGED <<computations, management, labeling, store_call>>

RuleCategorized == SUBSET {ShownIds[i] : i \in 1..MaxShown}
ManualRows == {[id \in some |-> "Food"] : some \in SUBSET {ShownIds[i] : i \in 1..MaxShown}}

MatcherInit ==
    /\ \E rule_categorized \in RuleCategorized, store \in {NoStore} \cup {StoreOf(r) : r \in ManualRows} :
          matcher = displayed([all_transactions |-> SubSeq(ShownIds, 1, MaxShown),
                               rule_categorized |-> rule_categorized,
                               store |-> store,
                               show_mode |-> "Uncategorized only",
                               current_transaction_index |-> 0,
                               transaction_id |-> NoTransaction,
                               click |-> NoClick])
    /\ ComputationsIdle /\ ManagementIdle /\ labeling = <<>> /\ store_call = <<>>

\* what a click leaves: the click, and the page of the run that follows it
after(m, button, saved_ok) ==
    displayed([m EXCEPT !.click = [button |-> button, transaction_id |-> matcher.transaction_id,
                                   index |-> matcher.current_transaction_index,
                                   filtered |-> filtered_transactions(matcher),
                                   saved |-> saved_ok]])

\* lines 439-440: the show mode is chosen
SelectShowMode ==
    /\ \E show_mode \in ShowModes \ {matcher.show_mode} :
          matcher' = after([matcher EXCEPT !.show_mode = show_mode], "Show transactions", FALSE)
    /\ MatcherFrame

\* lines 488-490
ClickPrevious ==
    /\ matcher.transaction_id # NoTransaction
    /\ matcher.current_transaction_index # 0
    /\ matcher' = after([matcher EXCEPT !.current_transaction_index = @ - 1], "Previous", FALSE)
    /\ MatcherFrame

\* lines 498-500
ClickNext ==
    /\ matcher.transaction_id # NoTransaction
    /\ matcher.current_transaction_index # total_transactions(matcher) - 1
    /\ matcher' = after(advanced(matcher), "Next", FALSE)
    /\ MatcherFrame

\* lines 580-590: "Save Category" with a category and a subcategory selected;
\* `writable` is whether save_categorized_transaction returns True
ClickSaveCategory ==
    /\ matcher.transaction_id # NoTransaction
    /\ ~current_categorization(matcher)
    /\ \E selected_category \in FormCategories, writable \in BOOLEAN :
          matcher' =
              IF writable
              THEN after(advanced([matcher EXCEPT !.store =
                             StoreOf([id \in DOMAIN matcher.store.rows \cup {matcher.transaction_id} |->
                                         IF id = matcher.transaction_id THEN selected_category
                                         ELSE matcher.store.rows[id]])]),
                         "Save Category", TRUE)
              ELSE [matcher EXCEPT !.click = [button |-> "Save Category",
                                              transaction_id |-> matcher.transaction_id,
                                              index |-> matcher.current_transaction_index,
                                              filtered |-> filtered_transactions(matcher),
                                              saved |-> FALSE]]
    /\ MatcherFrame

\* lines 592-598
ClickSkip ==
    /\ matcher.transaction_id # NoTransaction
    /\ ~current_categorization(matcher)
    /\ matcher' = after(advanced(matcher), "Skip", FALSE)
    /\ MatcherFrame

\* lines 608-619: the rows of the transaction leave the file, when there is a file
ClickRecategorize ==
    /\ matcher.transaction_id # NoTransaction
    /\ current_categorization(matcher)
    /\ matcher' =
          after(IF matcher.store.exists
                THEN [matcher EXCEPT !.store.rows = without_key(@, matcher.transaction_id)]
                ELSE matcher,
                "Re-categorize", FALSE)
    /\ MatcherFrame

\* lines 622-627
ClickNextTransaction ==
    /\ matcher.transaction_id # NoTransaction
    /\ current_categorization(matcher)
    /\ matcher' = after(advanced(matcher), "Next Transaction", FALSE)
    /\ MatcherFrame

\* lines 636-656: First Transaction, Go and Last Transaction
ClickGo ==
    /\ matcher.transaction_id # NoTransaction
    /\ \E jump_to \in 1..total_transactions(matcher) :
          matcher' = after([matcher EXCEPT !.current_transaction_index = jump_to - 1], "Go", FALSE)
    /\ MatcherFrame

MatcherNext ==
    \/ SelectShowMode \/ ClickPrevious \/ ClickNext \/ ClickSaveCategory \/ ClickSkip
    \/ ClickRecategorize \/ ClickNextTransaction \/ ClickGo
SpecMatcher == MatcherInit /\ [][MatcherNext]_vars

\* C25: a transaction shown as already categorized, by a manual label or by a
\* rule, can be re-categorized: after a click on Re-categorize the page no longer
\* counts it as categorized, so that the form with Save Category is offered for it.
C25_Recategorizable ==
    [][(matcher'.click.button = "Re-categorize" /\ matcher' # matcher)
       => matcher'.click.transaction_id \notin categorized_ids(matcher')]_vars

\* C26: after a successful Save Category on the transaction at position i of the
\* filtered list, the transaction displayed next is the one at position i + 1 of
\* that list, in every show mode.
C26_AutoAdvance ==
    (matcher # <<>> /\ matcher.click.button = "Save Category" /\ matcher.click.saved
     /\ matcher.click.index + 2 <= Len(matcher.click.filtered))
    => matcher.transaction_id = matcher.click.filtered[matcher.click.index + 2]

====
